---------------------------- MODULE Spec2Model ----------------------------
(***************************************************************************)
(* Verification model of the task-execution runtime:                       *)
(*   - RingQueue<T>       (src/Containers/RingQueue.h), every atomic load, *)
(*     compare-exchange, payload access and store of TryPush / TryPop is   *)
(*     one step of the calling thread;                                     *)
(*   - LockFreeExecutor   (src/Executor/LockFreeExecutor.h);               *)
(*   - ThreadExecutor     (src/Executor/ThreadExecutor.h).                 *)
(* Atomics are modelled as sequentially consistent interleavings.  The     *)
(* payload of a slot is a plain (non-atomic) object: an access that races  *)
(* with another thread's write yields a nondeterministic value.            *)
(***************************************************************************)
EXTENDS Integers, Sequences, FiniteSets, TLC

(***************************************************************************)
(* Bounds of the model.                                                    *)
(***************************************************************************)
MaxCap == 2
MaxThreads == 2
MaxTail == 4

MaxCtl == 2
MaxSubmit == 2
MaxRaced == 1
MaxCo == 2
MaxFrames == 3
MaxIdle == 3
MaxMiss == 255
MaxVal == 2
MaxTask == 2

Caps == 1..MaxCap
Controllers == 1..MaxCtl

(***************************************************************************)
(* Thread identities.  1..MaxThreads are the callers of the queue: in a    *)
(* ThreadExecutor thread 1 submits and every other one is an entry of      *)
(* _threads.  Start constructs the std::thread of an entry before it       *)
(* assigns it to the entry, so an entry can have one thread per controller *)
(* at a time: each entry has MaxCtl - 1 further identities, which only a   *)
(* ThreadExecutor with several controllers ever uses.                      *)
(***************************************************************************)
MaxIds == MaxThreads + (MaxThreads - 1) * (MaxCtl - 1)
Threads == 1..MaxIds
Callers == 1..MaxThreads

(***************************************************************************)
(* Payload values.  T is default-constructed in every Node; a pushed item  *)
(* is identified by its pusher and the pusher's count of accepted items.   *)
(***************************************************************************)
NoItem == 0
Torn == -1
NoArg == -1
NoResult == 0
NoHolder == 0

\* DefaultBackoffPolicy thresholds
SpinLimit == 50
YieldLimit == 200
Item(t, k) == t * 100 + k

Roles == {"none", "prod", "cons", "both"}

VARIABLES
    cap,      \* nodes_.size()
    head,     \* _head
    tail,     \* _tail
    seq,      \* nodes_[i].sequence
    data,     \* nodes_[i].data
    role,     \* which calls each thread makes
    pc,       \* position of each thread inside its current call
    lt,       \* local `tail` of the call
    lh,       \* local `head` of the call
    lseq,     \* local `seq` of the call
    item,     \* argument of TryPush
    op,       \* kind of the current/last call: "push" or "pop"
    res,      \* result of the last finished call ("None" while in a call)
    out,      \* output argument of TryPop as left by the last finished call
    sent,     \* per thread: number of TryPush calls that returned Ok
    got,      \* per thread: sequence of values returned by Ok pops
    solo,     \* per thread: no other thread has acted since the call began
    fullSeen, \* per thread: tail - head = cap held at some instant of the call
    emptySeen, \* per direct caller: head = tail held at some instant of its TryPop
    ticket,   \* direct callers: position k |-> the item of the TryPush that
              \* advanced tail from k to k + 1
    log       \* single caller only: the results of its two calls before the
              \* current one (prev, prev2), the number of consecutive Ok
              \* pushes up to the last call (run) and before it (before), and
              \* whether a push was refused right after cap Ok pushes

qvars == <<cap, head, tail, seq, data, role, pc, lt, lh, lseq, item, op, res,
           out, sent, got, solo, fullSeen, emptySeen, ticket, log>>

VARIABLES
    rt,        \* what each thread is: a free caller of the queue, the submitter
               \* or a worker of the runtime, and where it is in its loop
    running,   \* _running
    thr,       \* _threads[i]: "empty" (not joinable) or "joinable"
    cpc,       \* position of each controlling thread inside Start / Stop
    ci,        \* loop index of that Start / Stop over _threads
    crashed,   \* std::terminate was called
    subRes,    \* value returned by the last finished Submit
    subStopped \* the current/last Submit ran entirely on a stopped runtime

rvars == <<rt, running, thr, cpc, ci, crashed, subRes, subStopped>>

VARIABLES
    runtime,   \* which object is under study: the bare queue, or a runtime
    ret,       \* per thread: value returned by its last LockFreeExecutor call
    nco,       \* _coroutineCount / _coroutinePerThread
    frames,    \* per thread: the coroutine frames it hosts (_tasks / tasks)
    cur,       \* per thread: position of its for loop over the frames
    progressed,\* per thread: local `progressed` of ThreadMain
    missCount, \* per thread: local `missCount` of ThreadMain
    dequeued,  \* per thread: a task was dequeued and run in the current round
    idle,      \* per thread: consecutive finished rounds without a dequeued
               \* task (saturates at MaxIdle)
    arg,       \* per thread: argument of the backoff call of the last finished
               \* round, NoArg if the policy was not invoked
    did,       \* per thread: what the backoff call of the last finished round
               \* did ("spin", "yield", "sleep"), "none" if it was not invoked
    late,      \* per thread: "pending" once Stop has cleared _running while the
               \* thread holds a dequeued task whose callback has not run,
               \* "ran" once that callback has run, "no" otherwise
    tries,     \* per thread: TryPop attempts of the coroutine it is running,
               \* since that coroutine was resumed (0 when none is running)
    execs,     \* per thread: tasks run by that coroutine since it was resumed
    joins,     \* per thread object: join() calls since it was last created
    idem       \* per controller: its last Stop found the runtime stopped, with
               \* no Start or Stop in progress, and no Start has begun since

fvars == <<nco, frames, cur, progressed, missCount, dequeued, idle, arg>>

hvars == <<tries, execs>>

base == <<runtime, ret, hvars, did>>

cvars == <<base, fvars, joins, idem, late>>

VARIABLES
    ad,        \* the BlockingTask / ResultTask of the current synchronous Submit:
               \* its members _done, _result, _mutex (holder) and whether the
               \* object exists; with what _fn returns (want), the item that
               \* refers to it (id), whether its Add returned true (enq), how
               \* many times _fn has run to completion (ran) and whether
               \* workers were running when Submit was called (started)
    wr,        \* per worker: local `R r` of ResultTask::operator()
    dead,      \* items that refer to adapters already destroyed
    dangling,  \* a member of a destroyed adapter was accessed
    lastWait   \* the last Wait / Get that returned: its adapter, the value
               \* returned and the adapter's `ran` at that moment

advars == <<ad, wr, dead, dangling, lastWait>>

VARIABLES
    nthr,      \* ThreadConsumer: threadCount (size of _threads)
    tq,        \* _task_queue / _queue of the mutex-based consumers
    mtx,       \* holder of _queue_mutex / _mutex (NoHolder when free)
    waiters,   \* CoroutineConsumer: _waiters
    hold,      \* per thread: local `task` of ThreadFunc
    waitAll,   \* argument wait_all_tasks of the current / last Stop
    added,     \* number of tasks AddTask has pushed (they are 1..added)
    ran,       \* per task: number of times it was passed to the callback
    dropped,   \* tasks discarded by the swap of Stop(false)
    atStop,    \* the tasks in the queue when the last Stop cleared _running
    stopRet    \* how the last Stop returned ("drain": Stop(true), "discard":
               \* Stop(false)); "none" before the first Stop returns and
               \* from the next Start on

mvars == <<nthr, tq, mtx, waiters, hold, waitAll, added, ran, dropped, atStop, stopRet>>

avars == <<advars, mvars>>

xvars == <<cvars, avars>>

vars == <<qvars, rvars, xvars>>

(***************************************************************************)
(* Expressions of the code.                                                *)
(***************************************************************************)

\* size_t index = pos % nodes_.size()
Index(pos, n) == pos % n

\* tail - head >= nodes_.size() on size_t: the subtraction wraps modulo 2^64,
\* so a negative mathematical difference d is the huge value 2^64 + d, which
\* is >= n for every n the model uses.
\* (FastFullOff is the faulty variant that compares with > instead of >=.)
FastFullOff(tl, hd, n) == (tl - hd < 0) \/ (tl - hd > n)
FastFull(tl, hd, n) == (tl - hd < 0) \/ (tl - hd >= n)

\* intptr_t diff = (intptr_t)seq - (intptr_t)tail
Diff(sq, tl) == sq - tl

\* if (diff != 0) { if (diff < 0) return Full; return Busy; }
DiffResult(d) == IF d < 0 THEN "Full" ELSE "Busy"

\* seq != head + 1
PopReady(sq, hd) == sq = hd + 1

\* head == tail
\* (IsEmptyOff is the faulty variant that is off by one.)
IsEmptyOff(hd, tl) == hd + 1 >= tl
IsEmpty(hd, tl) == hd = tl

\* node.sequence.store(tail + 1, release)
PublishSeq(tl) == tl + 1

\* node.sequence.store(head + nodes_.size(), release)
\* (ReleaseSeqNoLap is the faulty variant that does not advance a lap.)
ReleaseSeqNoLap(hd, n) == hd + 1
ReleaseSeq(hd, n) == hd + n

InCall(t) == pc[t] # "idle"

\* Bound on the calls of Submit that are explored: MaxSubmit accepted tasks,
\* and one further call made on a full container with no call in progress.
SubmitBound ==
    \/ tail < MaxSubmit
    \/ /\ tail = MaxSubmit
       /\ tail - head = cap
       /\ \A u \in Threads : ~InCall(u)

Producers == {t \in Threads : role[t] \in {"prod", "both"}}
Consumers == {t \in Threads : role[t] \in {"cons", "both"}}
SingleCaller == Cardinality({t \in Threads : role[t] # "none"}) = 1

\* A thread owns slot i for writing (resp. reading) between its successful
\* compare-exchange and its release store of the slot's sequence.
Writing(t, i) == pc[t] \in {"push_write", "push_store"} /\ Index(lt[t], cap) = i
Reading(t, i) == pc[t] \in {"pop_read", "pop_store"} /\ Index(lh[t], cap) = i

\* History bookkeeping shared by all steps: a call that is in progress
\* records whether the queue was full at the instant after the step.
TrackFull(self, tl, hd) ==
    fullSeen' = [u \in Threads |->
                   IF u = self \/ InCall(u)
                   THEN fullSeen[u] \/ (tl - hd = cap)
                   ELSE fullSeen[u]]

\* The same for the empty queue, for the TryPop calls in progress of the
\* threads that use the queue directly.
TrackEmpty(tl, hd) ==
    emptySeen' = [u \in Threads |->
                    IF runtime = "queue" /\ InCall(u) /\ op[u] = "pop"
                    THEN emptySeen[u] \/ (hd = tl)
                    ELSE emptySeen[u]]

\* End of a call: locals are dead.
Finish(t, r) ==
    /\ pc' = [pc EXCEPT ![t] = "idle"]
    /\ res' = [res EXCEPT ![t] = r]
    /\ lt' = [lt EXCEPT ![t] = 0]
    /\ lh' = [lh EXCEPT ![t] = 0]
    /\ lseq' = [lseq EXCEPT ![t] = 0]
    /\ item' = [item EXCEPT ![t] = NoItem]
    /\ log' = IF SingleCaller
              THEN [log EXCEPT !.before = log.run,
                               !.run = IF op[t] = "push" /\ r = "Ok"
                                       THEN log.run + 1 ELSE 0,
                               !.refused = log.refused \/
                                   (op[t] = "push" /\ r = "Full" /\ log.run = cap)]
              ELSE log

(***************************************************************************)
(* RingQueue::RingQueue(capacity)                                          *)
(***************************************************************************)
QueueInit(n) ==
    /\ cap = n
    /\ head = 0
    /\ tail = 0
    /\ seq = [i \in 0..(n - 1) |-> i]
    /\ data = [i \in 0..(n - 1) |-> NoItem]

RoleConfigs ==
    {r \in [Threads -> Roles] :
        /\ r[1] \in {"prod", "both"}
        /\ \A t \in Threads \ {1} :
              r[t] \in (IF t \in Callers THEN {"none", "cons", "both"} ELSE {"none"})}

CallerInit ==
    /\ pc = [t \in Threads |-> "idle"]
    /\ lt = [t \in Threads |-> 0]
    /\ lh = [t \in Threads |-> 0]
    /\ lseq = [t \in Threads |-> 0]
    /\ item = [t \in Threads |-> NoItem]
    /\ res = [t \in Threads |-> "None"]
    /\ out = [t \in Threads |-> NoItem]
    /\ sent = [t \in Threads |-> 0]
    /\ got = [t \in Threads |-> <<>>]
    /\ solo = [t \in Threads |-> TRUE]
    /\ fullSeen = [t \in Threads |-> FALSE]
    /\ emptySeen = [t \in Threads |-> FALSE]
    /\ ticket = <<>>
    /\ op = [t \in Threads |-> "none"]
    /\ log = [run |-> 0, before |-> 0, refused |-> FALSE,
              prev |-> <<"none", "None">>, prev2 |-> <<"none", "None">>]

\* ThreadExecutor(executor, threadCount): _running(false), threads not started.
RuntimeInert ==
    /\ running = FALSE
    /\ thr = [t \in Threads |-> "empty"]
    /\ cpc = [c \in Controllers |-> "idle"]
    /\ ci = [c \in Controllers |-> 0]
    /\ crashed = FALSE
    /\ subRes = FALSE
    /\ subStopped = FALSE
    /\ joins = [t \in Threads |-> 0]
    /\ idem = [c \in Controllers |-> FALSE]
    /\ late = [t \in Threads |-> "no"]

\* No synchronous Submit has been made.
NoAdapter == [id |-> NoItem, live |-> FALSE, sync |-> "none", want |-> NoResult,
              done |-> FALSE, result |-> NoResult, mutex |-> 0,
              enq |-> FALSE, ran |-> 0, started |-> FALSE]

\* The mutex-based consumers before construction: nothing queued, nothing run.
ConsumersInert ==
    /\ tq = <<>>
    /\ mtx = NoHolder
    /\ waiters = <<>>
    /\ hold = [t \in Threads |-> NoItem]
    /\ waitAll = FALSE
    /\ added = 0
    /\ ran = [x \in 1..MaxTask |-> 0]
    /\ dropped = {}
    /\ atStop = {}
    /\ stopRet = "none"

AdaptersInert ==
    /\ ret = [t \in Threads |-> FALSE]
    /\ ad = NoAdapter
    /\ wr = [t \in Threads |-> NoResult]
    /\ dead = {}
    /\ dangling = FALSE
    /\ lastWait = [id |-> NoItem, sync |-> "none", want |-> NoResult,
                   value |-> NoResult, ran |-> 0]
    /\ nthr = 0
    /\ ConsumersInert

\* No coroutine exists before Start.
FramesInert ==
    /\ frames = [t \in Threads |-> <<>>]
    /\ cur = [t \in Threads |-> 0]
    /\ progressed = [t \in Threads |-> FALSE]
    /\ missCount = [t \in Threads |-> 0]
    /\ dequeued = [t \in Threads |-> FALSE]
    /\ idle = [t \in Threads |-> 0]
    /\ arg = [t \in Threads |-> NoArg]
    /\ did = [t \in Threads |-> "none"]
    /\ tries = [t \in Threads |-> 0]
    /\ execs = [t \in Threads |-> 0]

Init ==
    /\ \E n \in Caps : QueueInit(n)
    /\ role \in RoleConfigs
    /\ CallerInit
    /\ RuntimeInert
    /\ rt = [t \in Threads |-> "free"]
    /\ runtime = "queue"
    /\ nco = 0
    /\ FramesInert
    /\ AdaptersInert

(***************************************************************************)
(* RingQueue::TryPush                                                      *)
(***************************************************************************)

\* A call begins.  solo[t] records that no other call is in progress; the
\* record of every other thread is cleared, so that solo[u] says of u's
\* current or last call that no other thread has made a step since it began.
Begin(t, kind) ==
    /\ solo' = [u \in Threads |->
                  IF u = t THEN \A v \in Threads \ {t} : ~InCall(v) ELSE FALSE]
    /\ op' = [op EXCEPT ![t] = kind]
    /\ res' = [res EXCEPT ![t] = "None"]
    /\ log' = IF SingleCaller
              THEN [log EXCEPT !.prev2 = log.prev, !.prev = <<op[t], res[t]>>]
              ELSE log

\* size_t tail = _tail.load(relaxed)
PushLoadTail(t) ==
    /\ pc[t] = "idle"
    /\ pc' = [pc EXCEPT ![t] = "push_lhead"]
    /\ lt' = [lt EXCEPT ![t] = tail]
    /\ item' = [item EXCEPT ![t] = Item(t, sent[t] + 1)]
    /\ Begin(t, "push")
    /\ fullSeen' = [fullSeen EXCEPT ![t] = (tail - head = cap)]
    /\ UNCHANGED <<emptySeen, ticket>>
    /\ UNCHANGED <<cap, head, tail, seq, data, role, lh, lseq, out, sent, got>>

\* size_t head = _head.load(acquire); if (tail - head >= size) return Full;
PushLoadHead(t) ==
    /\ pc[t] = "push_lhead"
    /\ IF FastFull(lt[t], head, cap)
       THEN Finish(t, "Full")
       ELSE /\ pc' = [pc EXCEPT ![t] = "push_lseq"]
            /\ lh' = [lh EXCEPT ![t] = head]
            /\ UNCHANGED <<res, lt, lseq, item, log>>
    /\ UNCHANGED <<rvars, xvars, cap, head, tail, seq, data, role, op, out, sent, got, solo, fullSeen, emptySeen, ticket>>

\* size_t seq = node.sequence.load(acquire); diff = seq - tail; if (diff != 0) ...
PushLoadSeq(t) ==
    /\ pc[t] = "push_lseq"
    /\ LET s == seq[Index(lt[t], cap)]
           d == Diff(s, lt[t])
       IN IF d # 0
          THEN Finish(t, DiffResult(d))
          ELSE /\ pc' = [pc EXCEPT ![t] = "push_cas"]
               /\ lseq' = [lseq EXCEPT ![t] = s]
               /\ UNCHANGED <<res, lt, lh, item, log>>
    /\ UNCHANGED <<rvars, xvars, cap, head, tail, seq, data, role, op, out, sent, got, solo, fullSeen, emptySeen, ticket>>

\* The failed compare_exchange_strong: return Busy.  (PushCasRetry is the
\* faulty variant that takes the value the exchange loaded and tries again.)
PushCasRetry(t) ==
    /\ pc' = [pc EXCEPT ![t] = "push_lseq"]
    /\ lt' = [lt EXCEPT ![t] = tail]
    /\ UNCHANGED <<res, lh, lseq, item, log>>
PushCasFailed(t) == Finish(t, "Busy")

\* if (!_tail.compare_exchange_strong(tail, tail + 1)) return Busy;
PushCas(t) ==
    /\ pc[t] = "push_cas"
    /\ IF tail = lt[t]
       THEN /\ tail' = lt[t] + 1
            /\ pc' = [pc EXCEPT ![t] = "push_write"]
            /\ TrackFull(t, lt[t] + 1, head)
            /\ ticket' = IF runtime = "queue"
                         THEN (lt[t] :> item[t]) @@ ticket
                         ELSE ticket
            /\ UNCHANGED <<res, lt, lh, lseq, item, log>>
       ELSE /\ PushCasFailed(t)
            /\ UNCHANGED <<tail, fullSeen, ticket>>
    /\ UNCHANGED <<rvars, xvars, cap, head, seq, data, role, op, out, sent, got, solo, emptySeen>>

\* node.data = item;  (a plain write: racing with another owner of the slot
\* leaves an indeterminate payload)
PushWrite(t) ==
    /\ pc[t] = "push_write"
    /\ LET i == Index(lt[t], cap)
           raced == \E u \in Threads \ {t} : Writing(u, i)
       IN \E v \in (IF raced THEN {item[t], Torn} ELSE {item[t]}) :
              data' = [data EXCEPT ![i] = v]
    /\ pc' = [pc EXCEPT ![t] = "push_store"]
    /\ UNCHANGED <<rvars, xvars, cap, head, tail, seq, role, op, log, lt, lh, lseq, item, res, out,
                   sent, got, solo, fullSeen, emptySeen, ticket>>

\* node.sequence.store(tail + 1, release); return Ok;
PushStore(t) ==
    /\ pc[t] = "push_store"
    /\ seq' = [seq EXCEPT ![Index(lt[t], cap)] = PublishSeq(lt[t])]
    /\ sent' = [sent EXCEPT ![t] = sent[t] + 1]
    /\ Finish(t, "Ok")
    /\ UNCHANGED <<rvars, xvars, cap, head, tail, data, role, op, out, got, solo, fullSeen, emptySeen, ticket>>

(***************************************************************************)
(* RingQueue::TryPop                                                       *)
(***************************************************************************)

\* size_t head = _head.load(relaxed)
PopLoadHead(t) ==
    /\ pc[t] = "idle"
    /\ pc' = [pc EXCEPT ![t] = "pop_ltail"]
    /\ lh' = [lh EXCEPT ![t] = head]
    /\ Begin(t, "pop")
    /\ fullSeen' = [fullSeen EXCEPT ![t] = FALSE]
    /\ emptySeen' = [emptySeen EXCEPT ![t] = (runtime = "queue" /\ head = tail)]
    /\ UNCHANGED ticket
    /\ UNCHANGED <<cap, head, tail, seq, data, role, lt, lseq, item, out, sent, got>>

\* size_t tail = _tail.load(acquire); if (head == tail) return Empty;
PopLoadTail(t) ==
    /\ pc[t] = "pop_ltail"
    /\ IF IsEmpty(lh[t], tail)
       THEN Finish(t, "Empty")
       ELSE /\ pc' = [pc EXCEPT ![t] = "pop_lseq"]
            /\ lt' = [lt EXCEPT ![t] = tail]
            /\ UNCHANGED <<res, lh, lseq, item, log>>
    /\ UNCHANGED <<rvars, xvars, cap, head, tail, seq, data, role, op, out, sent, got, solo, fullSeen, emptySeen, ticket>>

\* Faulty variant of PopLoadSeq: the payload is copied into the caller's
\* argument before the position is claimed.
PopLoadSeqEager(t) ==
    /\ pc[t] = "pop_lseq"
    /\ LET s == seq[Index(lh[t], cap)]
       IN /\ lseq' = [lseq EXCEPT ![t] = s]
          /\ pc' = [pc EXCEPT ![t] =
                      IF PopReady(s, lh[t]) THEN "pop_cas" ELSE "pop_re1"]
    /\ out' = [out EXCEPT ![t] = data[Index(lh[t], cap)]]
    /\ UNCHANGED <<rvars, xvars, cap, head, tail, seq, data, role, op, log, lt, lh, item, res,
                   sent, got, solo, fullSeen, emptySeen, ticket>>

\* size_t seq = node.sequence.load(acquire); if (seq != head + 1) ...
PopLoadSeq(t) ==
    /\ pc[t] = "pop_lseq"
    /\ LET s == seq[Index(lh[t], cap)]
       IN /\ lseq' = [lseq EXCEPT ![t] = s]
          /\ pc' = [pc EXCEPT ![t] =
                      IF PopReady(s, lh[t]) THEN "pop_cas" ELSE "pop_re1"]
    /\ UNCHANGED <<rvars, xvars, cap, head, tail, seq, data, role, op, log, lt, lh, item, res, out,
                   sent, got, solo, fullSeen, emptySeen, ticket>>

\* _head.load(relaxed) == _tail.load(relaxed): two separate loads whose order
\* the language leaves open.  The first load, of either cursor; its value is
\* kept in lseq and the choice in lt (0: head was read, 1: tail was read).
PopRecheckFirst(t) ==
    /\ pc[t] = "pop_re1"
    /\ \E first \in {0, 1} :
          /\ lt' = [lt EXCEPT ![t] = first]
          /\ lseq' = [lseq EXCEPT ![t] = IF first = 0 THEN head ELSE tail]
    /\ pc' = [pc EXCEPT ![t] = "pop_re2"]
    /\ UNCHANGED <<rvars, xvars, cap, head, tail, seq, data, role, op, log, lh, item, res, out,
                   sent, got, solo, fullSeen, emptySeen, ticket>>

\* The second load and the comparison: return Empty or Busy.
PopRecheckSecond(t) ==
    /\ pc[t] = "pop_re2"
    /\ LET other == IF lt[t] = 0 THEN tail ELSE head
       IN Finish(t, IF IsEmpty(lseq[t], other) THEN "Empty" ELSE "Busy")
    /\ UNCHANGED <<rvars, xvars, cap, head, tail, seq, data, role, op, out, sent, got, solo, fullSeen, emptySeen, ticket>>

\* if (!_head.compare_exchange_strong(head, head + 1)) return Busy;
PopCas(t) ==
    /\ pc[t] = "pop_cas"
    /\ IF head = lh[t]
       THEN /\ head' = lh[t] + 1
            /\ pc' = [pc EXCEPT ![t] = "pop_read"]
            /\ TrackEmpty(tail, lh[t] + 1)
            /\ UNCHANGED <<res, lt, lh, lseq, item, log>>
       ELSE /\ Finish(t, "Busy")
            /\ UNCHANGED <<head, emptySeen>>
    /\ UNCHANGED <<rvars, xvars, cap, tail, seq, data, role, op, out, sent, got, solo, fullSeen, ticket>>

\* item = node.data;  (a plain read: racing with a producer that owns the
\* slot yields the old payload, the producer's item or a torn value)
PopRead(t) ==
    /\ pc[t] = "pop_read"
    /\ LET i == Index(lh[t], cap)
           racers == {u \in Threads \ {t} : Writing(u, i)}
       IN \E v \in ({data[i]} \cup {item[u] : u \in racers}
                      \cup (IF racers # {} THEN {Torn} ELSE {})) :
              out' = [out EXCEPT ![t] = v]
    /\ pc' = [pc EXCEPT ![t] = "pop_store"]
    /\ UNCHANGED <<rvars, xvars, cap, head, tail, seq, data, role, op, log, lt, lh, lseq, item, res,
                   sent, got, solo, fullSeen, emptySeen, ticket>>

\* node.sequence.store(head + nodes_.size(), release); return Ok;
PopStore(t) ==
    /\ pc[t] = "pop_store"
    /\ seq' = [seq EXCEPT ![Index(lh[t], cap)] = ReleaseSeq(lh[t], cap)]
    /\ got' = [got EXCEPT ![t] = Append(got[t], out[t])]
    /\ Finish(t, "Ok")
    /\ UNCHANGED <<rvars, xvars, cap, head, tail, data, role, op, out, sent, solo, fullSeen, emptySeen, ticket>>

\* A thread that uses the queue directly calls TryPush / TryPop at will.
CallerPush(t) ==
    /\ rt[t] = "free"
    /\ role[t] \in {"prod", "both"}
    /\ tail < MaxTail
    /\ PushLoadTail(t)
    /\ UNCHANGED <<rvars, xvars>>

CallerPop(t) ==
    /\ rt[t] = "free"
    /\ role[t] \in {"cons", "both"}
    /\ PopLoadHead(t)
    /\ UNCHANGED <<rvars, xvars>>

TryPush(t) ==
    \/ PushLoadHead(t)
    \/ PushLoadSeq(t)
    \/ PushCas(t)
    \/ PushWrite(t)
    \/ PushStore(t)

TryPop(t) ==
    \/ PopLoadTail(t)
    \/ PopLoadSeq(t)
    \/ PopRecheckFirst(t)
    \/ PopRecheckSecond(t)
    \/ PopCas(t)
    \/ PopRead(t)
    \/ PopStore(t)

Next == \E t \in Threads : CallerPush(t) \/ CallerPop(t) \/ TryPush(t) \/ TryPop(t)

Spec == Init /\ [][Next]_vars

(***************************************************************************)
(* ThreadExecutor over a LockFreeExecutor.  Thread 1 is the submitting     *)
(* thread, Workers are the entries of _threads, WorkerThreads the threads  *)
(* these entries can have; the controllers are the threads that call Start *)
(* and Stop.                                                               *)
(***************************************************************************)
FirstWorker == 2
EndWorker == MaxThreads + 1
Workers == FirstWorker..MaxThreads

\* The threads an entry of _threads can have, and the entry of a thread.
WorkerThreads == Threads \ {1}
Slot(i) == IF i <= MaxThreads THEN i
           ELSE FirstWorker + (i - MaxThreads - 1) \div (MaxCtl - 1)
Of(w) == {i \in WorkerThreads : Slot(i) = w}

\* thr[i] of a thread: "joinable" when the entry of _threads refers to it,
\* Temp(c) when it is the temporary std::thread of controller c's Start,
\* "empty" when there is no such thread.
Temp(c) == "temp" \o ToString(c)
Handle(w) == {i \in Of(w) : thr[i] = "joinable"}
Unused(i) == rt[i] = "off" /\ thr[i] = "empty"

Alive(w) == rt[w] \in {"loop", "call", "popping", "task", "lock", "wait"}
AnyAlive == \E w \in WorkerThreads : Alive(w)

\* The same for any of the runtimes: the flag is clear, no Start or Stop is in
\* progress and no thread of the runtime exists.
Quiesced ==
    /\ ~running
    /\ \A c \in Controllers : cpc[c] = "idle"
    /\ \A w \in WorkerThreads : rt[w] \in {"off", "unused"} /\ thr[w] # "joinable"

\* No Start or Stop has left anything behind: _running is false, no call of
\* Start or Stop is in progress and no worker thread exists.
Stopped ==
    /\ ~running
    /\ \A c \in Controllers : cpc[c] = "idle"
    /\ \A w \in WorkerThreads : rt[w] = "off" /\ thr[w] = "empty"

ThreadInit ==
    /\ \E n \in Caps : QueueInit(n)
    /\ role = [t \in Threads |-> IF t = 1 THEN "prod" ELSE "cons"]
    /\ CallerInit
    /\ RuntimeInert
    /\ rt = [t \in Threads |-> IF t = 1 THEN "sub_idle" ELSE "off"]
    /\ runtime = "thread"
    /\ nco = 0
    /\ FramesInert
    /\ AdaptersInert

\* LockFreeExecutor::Add / TryPop: one queue call, true iff it returned Ok.
Add(t) == PushLoadTail(t)
\* (AddResultLax is the faulty variant that takes Busy for success.)
AddResultLax(t) == res[t] # "Full"
AddResult(t) == res[t] = "Ok"
ExecutorTryPop(t) == PopLoadHead(t)
\* (ExecutorTryPopResultLive is the faulty variant that gives the task up
\* when _running was cleared in the meantime.)
ExecutorTryPopResultLive(t) == res[t] = "Ok" /\ running
ExecutorTryPopResult(t) == res[t] = "Ok"

\* _cv.notify_one(): one of the threads blocked in wait_for, if any, wakes.
NotifyOne(t, pos) ==
    \/ /\ \E w \in WorkerThreads :
             /\ rt[w] = "wait"
             /\ rt' = [rt EXCEPT ![w] = "loop", ![t] = pos]
    \/ /\ \A w \in WorkerThreads : rt[w] # "wait"
       /\ rt' = [rt EXCEPT ![t] = pos]

\* _cv.notify_all()
NotifyAll == rt' = [t \in Threads |-> IF rt[t] = "wait" THEN "loop" ELSE rt[t]]

\* Submit: bool ok = _executor.Add(task);
SubmitCall(t, bound) ==
    /\ ~crashed
    /\ rt[t] = "sub_idle"
    /\ UNCHANGED xvars
    /\ bound
    /\ Add(t)
    /\ rt' = [rt EXCEPT ![t] = "sub_add"]
    /\ subStopped' = Stopped
    /\ UNCHANGED <<running, thr, cpc, ci, crashed, subRes>>

SubmitAdd(t) == SubmitCall(t, tail < MaxSubmit)

\* Submit: if (ok) ... ; return ok;   (the failing return)
SubmitAfterAdd(t) ==
    /\ ~crashed
    /\ rt[t] = "sub_add"
    /\ UNCHANGED xvars
    /\ ~InCall(t)
    /\ IF AddResult(t)
       THEN /\ rt' = [rt EXCEPT ![t] = "sub_notify"]
            /\ UNCHANGED subRes
       ELSE /\ rt' = [rt EXCEPT ![t] = "sub_idle"]
            /\ subRes' = FALSE
    /\ UNCHANGED <<running, thr, cpc, ci, crashed, subStopped>>
    /\ UNCHANGED qvars

\* Submit: _cv.notify_one(); return ok;
SubmitNotify(t) ==
    /\ ~crashed
    /\ rt[t] = "sub_notify"
    /\ UNCHANGED xvars
    /\ NotifyOne(t, "sub_idle")
    /\ subRes' = TRUE
    /\ UNCHANGED <<running, thr, cpc, ci, crashed, subStopped>>
    /\ UNCHANGED qvars

\* An execution context holds a task it has dequeued (its TryPop has won the
\* head CAS) and whose callback has not returned yet.
Holding(w) ==
    \/ pc[w] \in {"pop_read", "pop_store"}
    \/ /\ rt[w] \in {"popping", "c_popping", "h_popping"}
       /\ ~InCall(w)
       /\ res[w] = "Ok"
    \/ rt[w] \in {"task", "c_task", "h_cb"}

\* History bookkeeping of the steps that clear _running, return from a
\* callback and follow a callback.
LateAtStop == late' = [t \in Threads |-> IF Holding(t) THEN "pending" ELSE late[t]]
LateAtCallback(w) ==
    late' = [late EXCEPT ![w] = IF late[w] = "pending" THEN "ran" ELSE late[w]]
LateReset(w) == late' = [late EXCEPT ![w] = "no"]

\* WorkerLoop: while (_running.load())
WorkerCheck(w) ==
    /\ ~crashed
    /\ rt[w] = "loop"
    /\ UNCHANGED <<base, fvars, joins, idem, avars>>
    /\ LateReset(w)
    /\ rt' = [rt EXCEPT ![w] = IF running THEN "call" ELSE "exit"]
    /\ UNCHANGED <<running, thr, cpc, ci, crashed, subRes, subStopped>>
    /\ UNCHANGED qvars

\* WorkerLoop: Task task; _executor.TryPop(task)
WorkerTryPop(w) ==
    /\ ~crashed
    /\ rt[w] = "call"
    /\ UNCHANGED xvars
    /\ ExecutorTryPop(w)
    /\ rt' = [rt EXCEPT ![w] = "popping"]
    /\ UNCHANGED <<running, thr, cpc, ci, crashed, subRes, subStopped>>

\* WorkerLoop: if (TryPop(task)) ... else { unique_lock lock(_waitMutex); ...
WorkerAfterPop(w) ==
    /\ ~crashed
    /\ rt[w] = "popping"
    /\ UNCHANGED xvars
    /\ ~InCall(w)
    /\ rt' = [rt EXCEPT ![w] = IF ExecutorTryPopResult(w) THEN "task" ELSE "lock"]
    /\ UNCHANGED <<running, thr, cpc, ci, crashed, subRes, subStopped>>
    /\ UNCHANGED qvars

\* The popped task is a std::ref to a BlockingTask / ResultTask.
IsAdapter(x) == (x # NoItem /\ x = ad.id) \/ x \in dead

\* WorkerLoop: task();
WorkerTask(w) ==
    /\ ~crashed
    /\ rt[w] = "task"
    /\ UNCHANGED <<base, fvars, joins, idem, avars>>
    /\ LateAtCallback(w)
    /\ ~IsAdapter(out[w])
    /\ rt' = [rt EXCEPT ![w] = "loop"]
    /\ UNCHANGED <<running, thr, cpc, ci, crashed, subRes, subStopped>>
    /\ UNCHANGED qvars

\* WorkerLoop: _cv.wait_for(lock, 1ms) begins to wait
WorkerWaitFor(w) ==
    /\ ~crashed
    /\ rt[w] = "lock"
    /\ UNCHANGED xvars
    /\ rt' = [rt EXCEPT ![w] = "wait"]
    /\ UNCHANGED <<running, thr, cpc, ci, crashed, subRes, subStopped>>
    /\ UNCHANGED qvars

\* WorkerLoop: wait_for returns on its timeout
\* (WorkerTimeoutNever is the faulty variant: a wait without a timeout.)
WorkerTimeoutNever(w) ==
    /\ FALSE
    /\ UNCHANGED vars
WorkerTimeout(w) ==
    /\ ~crashed
    /\ rt[w] = "wait"
    /\ UNCHANGED xvars
    /\ rt' = [rt EXCEPT ![w] = "loop"]
    /\ UNCHANGED <<running, thr, cpc, ci, crashed, subRes, subStopped>>
    /\ UNCHANGED qvars

\* Start: if (_running.exchange(true)) return;
StartExchange(c) ==
    /\ ~crashed
    /\ runtime \in {"thread", "block"}
    /\ cpc[c] = "idle"
    /\ idem' = [k \in Controllers |-> FALSE]
    /\ UNCHANGED <<base, fvars, joins, late>>
    /\ UNCHANGED avars
    /\ running' = TRUE
    /\ IF running
       THEN UNCHANGED <<cpc, ci>>
       ELSE /\ cpc' = [cpc EXCEPT ![c] = "start"]
            /\ ci' = [ci EXCEPT ![c] = FirstWorker]
    /\ subStopped' = FALSE
    /\ UNCHANGED <<rt, thr, crashed, subRes>>
    /\ UNCHANGED qvars

\* Start: for (auto& t : _threads) ... std::thread(&WorkerLoop, this)
\* The temporary std::thread is constructed: its WorkerLoop runs from here on,
\* while the entry of _threads is still what it was.  At the end of the loop
\* Start returns.
StartConstruct(c) ==
    /\ ~crashed
    /\ cpc[c] = "start"
    /\ UNCHANGED <<base, fvars, idem, late>>
    /\ UNCHANGED avars
    /\ IF ci[c] = EndWorker
       THEN /\ cpc' = [cpc EXCEPT ![c] = "idle"]
            /\ ci' = [ci EXCEPT ![c] = 0]
            /\ UNCHANGED <<rt, thr, joins>>
       ELSE \E i \in Of(ci[c]) :
               /\ Unused(i)
               /\ \A j \in Of(ci[c]) : Unused(j) => i <= j
               /\ rt' = [rt EXCEPT ![i] = "loop"]
               /\ thr' = [thr EXCEPT ![i] = Temp(c)]
               /\ joins' = [joins EXCEPT ![i] = 0]
               /\ cpc' = [cpc EXCEPT ![c] = "start_assign"]
               /\ UNCHANGED ci
    /\ UNCHANGED <<running, crashed, subRes, subStopped>>
    /\ UNCHANGED qvars

\* Start: t = <the temporary>;   the move-assignment, which calls
\* std::terminate when the entry is joinable
StartAssign(c) ==
    /\ ~crashed
    /\ cpc[c] = "start_assign"
    /\ UNCHANGED <<base, fvars, joins, idem, late>>
    /\ UNCHANGED avars
    /\ IF Handle(ci[c]) # {}
       THEN /\ crashed' = TRUE
            /\ UNCHANGED <<thr, cpc, ci>>
       ELSE /\ thr' = [i \in Threads |-> IF thr[i] = Temp(c) THEN "joinable" ELSE thr[i]]
            /\ cpc' = [cpc EXCEPT ![c] = "start"]
            /\ ci' = [ci EXCEPT ![c] = ci[c] + 1]
            /\ UNCHANGED crashed
    /\ UNCHANGED <<rt, running, subRes, subStopped>>
    /\ UNCHANGED qvars

StartSpawn(c) == StartConstruct(c) \/ StartAssign(c)

\* if (!_running.exchange(false)) return;   on the value the exchange returned
\* (StopProceedsAlways is the faulty variant without the guard.)
StopProceedsAlways(was) == TRUE
StopProceeds(was) == was

\* Stop: if (!_running.exchange(false)) return;
StopExchange(c) ==
    /\ ~crashed
    /\ runtime \in {"thread", "block"}
    /\ cpc[c] = "idle"
    /\ idem' = [idem EXCEPT ![c] = Quiesced]
    /\ UNCHANGED <<base, fvars, joins>>
    /\ LateAtStop
    /\ UNCHANGED avars
    /\ running' = FALSE
    /\ cpc' = IF StopProceeds(running) THEN [cpc EXCEPT ![c] = "stop_notify"] ELSE cpc
    /\ UNCHANGED <<rt, thr, ci, crashed, subRes, subStopped>>
    /\ UNCHANGED qvars

\* Stop: _cv.notify_all();
StopNotify(c) ==
    /\ ~crashed
    /\ cpc[c] = "stop_notify"
    /\ UNCHANGED xvars
    /\ NotifyAll
    /\ cpc' = [cpc EXCEPT ![c] = "stop_join"]
    /\ ci' = [ci EXCEPT ![c] = FirstWorker]
    /\ UNCHANGED <<running, thr, crashed, subRes, subStopped>>
    /\ UNCHANGED qvars

\* Stop: for (auto& t : _threads) if (t.joinable()) t.join();   and the return
\* (join returns once the thread's WorkerLoop has returned)
StopJoin(c) ==
    /\ ~crashed
    /\ cpc[c] = "stop_join"
    /\ UNCHANGED <<base, fvars, idem, late>>
    /\ UNCHANGED avars
    /\ IF ci[c] = EndWorker
       THEN /\ cpc' = [cpc EXCEPT ![c] = "idle"]
            /\ ci' = [ci EXCEPT ![c] = 0]
            /\ UNCHANGED <<rt, thr, joins>>
       ELSE IF Handle(ci[c]) # {}
            THEN \E i \in Handle(ci[c]) :
                    /\ rt[i] = "exit"
                    /\ thr' = [thr EXCEPT ![i] = "empty"]
                    /\ rt' = [rt EXCEPT ![i] = "off"]
                    /\ joins' = [joins EXCEPT ![i] = joins[i] + 1]
                    /\ ci' = [ci EXCEPT ![c] = ci[c] + 1]
                    /\ UNCHANGED <<cpc>>
            ELSE /\ ci' = [ci EXCEPT ![c] = ci[c] + 1]
                 /\ UNCHANGED <<rt, thr, joins, cpc>>
    /\ UNCHANGED <<running, crashed, subRes, subStopped>>
    /\ UNCHANGED qvars

\* A queue call made by the submitter or a worker proceeds.
ExecutorStep(t) == ~crashed /\ (TryPush(t) \/ TryPop(t))

Submit(t) == SubmitAdd(t) \/ SubmitAfterAdd(t) \/ SubmitNotify(t)

\* (the narrower bound of the runs in which several controllers call Start
\* and Stop at will)
SubmitRaced(t) == SubmitCall(t, tail < MaxRaced) \/ SubmitAfterAdd(t) \/ SubmitNotify(t)

WorkerLoop(w) ==
    \/ WorkerCheck(w)
    \/ WorkerTryPop(w)
    \/ WorkerAfterPop(w)
    \/ WorkerTask(w)
    \/ WorkerWaitFor(w)
    \/ WorkerTimeout(w)

Start(c) == StartExchange(c) \/ StartSpawn(c)

Stop(c) == StopExchange(c) \/ StopNotify(c) \/ StopJoin(c)

ThreadNext ==
    \/ SubmitRaced(1)
    \/ \E w \in WorkerThreads : WorkerLoop(w)
    \/ \E c \in Controllers : Start(c) \/ Stop(c)
    \/ \E t \in Threads : ExecutorStep(t)

ThreadSpec == ThreadInit /\ [][ThreadNext]_vars

\* A ThreadExecutor on which Stop is never called.  Worker threads are OS
\* threads: a worker that has a step to take takes it (its wait_for is
\* bounded, so a waiting worker always has one).  The submitter and the
\* callers of Start are free to stay idle.
DeliveryNext ==
    \/ Submit(1)
    \/ \E w \in Workers : WorkerLoop(w)
    \/ \E c \in Controllers : Start(c)
    \/ \E t \in Threads : ExecutorStep(t)

DeliveryFairness ==
    \A w \in Workers : WF_vars(WorkerLoop(w) \/ ExecutorStep(w))

DeliveryFairSpec == ThreadInit /\ [][DeliveryNext]_vars /\ DeliveryFairness

(***************************************************************************)
(* LockFreeExecutor used directly: every thread with a role calls Add      *)
(* and / or TryPop at will.                                                *)
(***************************************************************************)
ContainerInit ==
    /\ \E n \in Caps : QueueInit(n)
    /\ role \in RoleConfigs
    /\ CallerInit
    /\ RuntimeInert
    /\ rt = [t \in Threads |-> "c_idle"]
    /\ runtime = "container"
    /\ nco = 0
    /\ FramesInert
    /\ AdaptersInert

\* bool Add(const Task& task) { return _queue.TryPush(task) == Ok; }
ContainerAdd(t) ==
    /\ rt[t] = "c_idle"
    /\ role[t] \in {"prod", "both"}
    /\ tail < MaxSubmit
    /\ Add(t)
    /\ rt' = [rt EXCEPT ![t] = "c_add"]
    /\ UNCHANGED <<running, thr, cpc, ci, crashed, subRes, subStopped>>
    /\ UNCHANGED xvars

ContainerAddReturn(t) ==
    /\ rt[t] = "c_add"
    /\ ~InCall(t)
    /\ ret' = [ret EXCEPT ![t] = AddResult(t)]
    /\ rt' = [rt EXCEPT ![t] = "c_idle"]
    /\ UNCHANGED <<running, thr, cpc, ci, crashed, subRes, subStopped>>
    /\ UNCHANGED <<runtime, hvars, did, fvars, joins, idem, late, avars>>
    /\ UNCHANGED qvars

\* bool TryPop(Task& out) { return _queue.TryPop(out) == Ok; }
ContainerTryPop(t) ==
    /\ rt[t] = "c_idle"
    /\ role[t] \in {"cons", "both"}
    /\ ExecutorTryPop(t)
    /\ rt' = [rt EXCEPT ![t] = "c_pop"]
    /\ UNCHANGED <<running, thr, cpc, ci, crashed, subRes, subStopped>>
    /\ UNCHANGED xvars

ContainerTryPopReturn(t) ==
    /\ rt[t] = "c_pop"
    /\ ~InCall(t)
    /\ ret' = [ret EXCEPT ![t] = ExecutorTryPopResult(t)]
    /\ rt' = [rt EXCEPT ![t] = "c_idle"]
    /\ UNCHANGED <<running, thr, cpc, ci, crashed, subRes, subStopped>>
    /\ UNCHANGED <<runtime, hvars, did, fvars, joins, idem, late, avars>>
    /\ UNCHANGED qvars

ContainerNext ==
    \E t \in Threads :
        \/ ContainerAdd(t) \/ ContainerAddReturn(t)
        \/ ContainerTryPop(t) \/ ContainerTryPopReturn(t)
        \/ ExecutorStep(t)

ContainerSpec == ContainerInit /\ [][ContainerNext]_vars

(***************************************************************************)
(* CoroutineExecutor over a LockFreeExecutor.  Thread 1 submits, the       *)
(* thread FirstWorker is _worker (the scheduler thread).  Start and Stop   *)
(* append to _tasks and assign _worker without synchronisation: they are   *)
(* called by the one thread that owns the runtime object.                  *)
(***************************************************************************)
Owner == 1
Sched == FirstWorker

SetFrame(f, i, v) == [f EXCEPT ![i] = v]

CoInit ==
    /\ \E n \in Caps : QueueInit(n)
    /\ role = [t \in Threads |->
                 IF t = 1 THEN "prod" ELSE IF t = Sched THEN "cons" ELSE "none"]
    /\ CallerInit
    /\ RuntimeInert
    /\ rt = [t \in Threads |->
               IF t = 1 THEN "cs_idle" ELSE IF t = Sched THEN "off" ELSE "unused"]
    /\ runtime = "co"
    /\ nco \in 1..MaxCo
    /\ FramesInert
    /\ AdaptersInert

\* Submit: return _executor.Add(task);
CoSubmitCall(t, bound) ==
    /\ ~crashed
    /\ runtime = "co"
    /\ rt[t] = "cs_idle"
    /\ bound
    /\ Add(t)
    /\ rt' = [rt EXCEPT ![t] = "cs_add"]
    /\ UNCHANGED <<running, thr, cpc, ci, crashed, subRes, subStopped>>
    /\ UNCHANGED xvars

CoSubmitAdd(t) == CoSubmitCall(t, tail < MaxSubmit)

CoSubmitReturn(t) ==
    /\ ~crashed
    /\ rt[t] = "cs_add"
    /\ ~InCall(t)
    /\ subRes' = AddResult(t)
    /\ rt' = [rt EXCEPT ![t] = "cs_idle"]
    /\ UNCHANGED <<running, thr, cpc, ci, crashed, subStopped>>
    /\ UNCHANGED <<qvars, xvars>>

\* Start: if (_running.exchange(true)) return;
CoStartExchange(c) ==
    /\ ~crashed
    /\ runtime = "co"
    /\ cpc[c] = "idle"
    /\ running \/ Len(frames[Sched]) + nco <= MaxFrames
    /\ running' = TRUE
    /\ IF running
       THEN UNCHANGED <<cpc, ci>>
       ELSE /\ cpc' = [cpc EXCEPT ![c] = "co_emplace"]
            /\ ci' = [ci EXCEPT ![c] = 0]
    /\ UNCHANGED <<rt, thr, crashed, subRes, subStopped>>
    /\ idem' = [k \in Controllers |-> FALSE]
    /\ UNCHANGED <<base, fvars, joins, late>>
    /\ UNCHANGED avars
    /\ UNCHANGED qvars

\* Start: for (i < _coroutineCount) _tasks.emplace_back(ConsumeLoop());
\* (the coroutine is created suspended at its initial suspend point)
CoStartEmplace(c) ==
    /\ ~crashed
    /\ cpc[c] = "co_emplace"
    /\ IF ci[c] < nco
       THEN /\ frames' = [frames EXCEPT ![Sched] = Append(frames[Sched], "init")]
            /\ ci' = [ci EXCEPT ![c] = ci[c] + 1]
            /\ UNCHANGED cpc
       ELSE /\ cpc' = [cpc EXCEPT ![c] = "co_spawn"]
            /\ UNCHANGED <<frames, ci>>
    /\ UNCHANGED <<rt, running, thr, crashed, subRes, subStopped>>
    /\ UNCHANGED <<base, nco, cur, progressed, missCount, dequeued, idle, arg, joins, idem, late>>
    /\ UNCHANGED avars
    /\ UNCHANGED qvars

\* Start: _worker = std::thread(&SchedulerLoop, this);
CoStartSpawn(c) ==
    /\ ~crashed
    /\ cpc[c] = "co_spawn"
    /\ IF thr[Sched] = "joinable"
       THEN /\ crashed' = TRUE
            /\ UNCHANGED <<rt, thr, cpc, ci, joins>>
       ELSE /\ thr' = [thr EXCEPT ![Sched] = "joinable"]
            /\ rt' = [rt EXCEPT ![Sched] = "s_while"]
            /\ joins' = [joins EXCEPT ![Sched] = 0]
            /\ cpc' = [cpc EXCEPT ![c] = "idle"]
            /\ ci' = [ci EXCEPT ![c] = 0]
            /\ UNCHANGED crashed
    /\ UNCHANGED <<running, subRes, subStopped>>
    /\ UNCHANGED <<base, fvars, idem, late>>
    /\ UNCHANGED avars
    /\ UNCHANGED qvars

\* Stop: if (!_running.exchange(false)) return;
CoStopExchange(c) ==
    /\ ~crashed
    /\ runtime = "co"
    /\ cpc[c] = "idle"
    /\ running' = FALSE
    /\ IF StopProceeds(running)
       THEN cpc' = [cpc EXCEPT ![c] = "co_join"]
       ELSE UNCHANGED cpc
    /\ UNCHANGED <<rt, thr, ci, crashed, subRes, subStopped>>
    /\ idem' = [idem EXCEPT ![c] = Quiesced]
    /\ UNCHANGED <<base, fvars, joins>>
    /\ LateAtStop
    /\ UNCHANGED avars
    /\ UNCHANGED qvars

\* (CoStopNoJoin is the faulty variant that returns without joining.)
CoStopNoJoin(c) ==
    /\ ~crashed
    /\ cpc[c] = "co_join"
    /\ cpc' = [cpc EXCEPT ![c] = "idle"]
    /\ UNCHANGED <<rt, running, thr, ci, crashed, subRes, subStopped>>
    /\ UNCHANGED <<qvars, xvars>>

\* Stop: if (_worker.joinable()) _worker.join();
CoStopJoin(c) ==
    /\ ~crashed
    /\ cpc[c] = "co_join"
    /\ IF thr[Sched] = "joinable"
       THEN /\ rt[Sched] = "exit"
            /\ thr' = [thr EXCEPT ![Sched] = "empty"]
            /\ rt' = [rt EXCEPT ![Sched] = "off"]
            /\ joins' = [joins EXCEPT ![Sched] = joins[Sched] + 1]
       ELSE UNCHANGED <<rt, thr, joins>>
    /\ cpc' = [cpc EXCEPT ![c] = "idle"]
    /\ UNCHANGED <<running, ci, crashed, subRes, subStopped>>
    /\ UNCHANGED <<base, fvars, idem, late>>
    /\ UNCHANGED avars
    /\ UNCHANGED qvars

\* SchedulerLoop: while (_running.load())
SchedCheck(s) ==
    /\ ~crashed
    /\ rt[s] = "s_while"
    /\ IF running
       THEN /\ rt' = [rt EXCEPT ![s] = "s_for"]
            /\ cur' = [cur EXCEPT ![s] = 1]
       ELSE /\ rt' = [rt EXCEPT ![s] = "exit"]
            /\ UNCHANGED cur
    /\ UNCHANGED <<running, thr, cpc, ci, crashed, subRes, subStopped>>
    /\ UNCHANGED <<base, nco, frames, progressed, missCount, dequeued, idle, arg, joins, idem, late>>
    /\ UNCHANGED avars
    /\ UNCHANGED qvars

\* Faulty variant of SchedResume: the test of done() is missing, a finished
\* task is resumed like any other.
SchedResumeDone(s) ==
    /\ ~crashed
    /\ rt[s] = "s_for"
    /\ IF cur[s] > Len(frames[s])
       THEN rt' = [rt EXCEPT ![s] = "s_yield"]
       ELSE rt' = [rt EXCEPT ![s] = "c_while"]
    /\ UNCHANGED cur
    /\ UNCHANGED <<running, thr, cpc, ci, crashed, subRes, subStopped>>
    /\ UNCHANGED <<base, nco, frames, progressed, missCount, dequeued, idle, arg, joins, idem, late>>
    /\ UNCHANGED avars
    /\ UNCHANGED qvars

\* SchedulerLoop: for (auto& t : _tasks) if (t.h && !t.h.done()) t.h.resume();
SchedResume(s) ==
    /\ ~crashed
    /\ rt[s] = "s_for"
    /\ IF cur[s] > Len(frames[s])
       THEN /\ rt' = [rt EXCEPT ![s] = "s_yield"]
            /\ UNCHANGED cur
       ELSE IF frames[s][cur[s]] # "done"
            THEN /\ rt' = [rt EXCEPT ![s] = "c_while"]
                 /\ UNCHANGED cur
            ELSE /\ cur' = [cur EXCEPT ![s] = cur[s] + 1]
                 /\ UNCHANGED rt
    /\ UNCHANGED <<running, thr, cpc, ci, crashed, subRes, subStopped>>
    /\ UNCHANGED <<base, nco, frames, progressed, missCount, dequeued, idle, arg, joins, idem, late>>
    /\ UNCHANGED avars
    /\ UNCHANGED qvars

\* SchedulerLoop: std::this_thread::yield();
SchedYield(s) ==
    /\ ~crashed
    /\ rt[s] = "s_yield"
    /\ rt' = [rt EXCEPT ![s] = "s_while"]
    /\ UNCHANGED <<running, thr, cpc, ci, crashed, subRes, subStopped>>
    /\ UNCHANGED <<qvars, xvars>>

\* ConsumeLoop: while (_running.load()); leaving the loop ends the coroutine
\* (it stays suspended at its final suspend point: done() is true)
ConsumeCheck(s) ==
    /\ ~crashed
    /\ rt[s] = "c_while"
    /\ IF running
       THEN /\ rt' = [rt EXCEPT ![s] = "c_call"]
            /\ UNCHANGED <<frames, cur, hvars>>
       ELSE /\ frames' = [frames EXCEPT ![s] = SetFrame(frames[s], cur[s], "done")]
            /\ cur' = [cur EXCEPT ![s] = cur[s] + 1]
            /\ rt' = [rt EXCEPT ![s] = "s_for"]
            /\ tries' = [tries EXCEPT ![s] = 0]
            /\ execs' = [execs EXCEPT ![s] = 0]
    /\ UNCHANGED <<running, thr, cpc, ci, crashed, subRes, subStopped>>
    /\ UNCHANGED <<runtime, ret, did, nco, progressed, missCount, dequeued, idle, arg, joins, idem, late>>
    /\ UNCHANGED avars
    /\ UNCHANGED qvars

\* ConsumeLoop: Task task; _executor.TryPop(task)
ConsumeTryPop(s) ==
    /\ ~crashed
    /\ rt[s] = "c_call"
    /\ ExecutorTryPop(s)
    /\ rt' = [rt EXCEPT ![s] = "c_popping"]
    /\ UNCHANGED <<running, thr, cpc, ci, crashed, subRes, subStopped>>
    /\ tries' = [tries EXCEPT ![s] = tries[s] + 1]
    /\ UNCHANGED <<runtime, ret, did, execs, fvars, joins, idem, late>>
    /\ UNCHANGED avars

\* ConsumeLoop: if (_executor.TryPop(task)) ...
ConsumeAfterPop(s) ==
    /\ ~crashed
    /\ rt[s] = "c_popping"
    /\ ~InCall(s)
    /\ rt' = [rt EXCEPT ![s] = IF ExecutorTryPopResult(s) THEN "c_task" ELSE "c_await"]
    /\ UNCHANGED <<running, thr, cpc, ci, crashed, subRes, subStopped>>
    /\ UNCHANGED <<qvars, xvars>>

\* ConsumeLoop: where the coroutine goes after `task();`: the co_await that
\* follows the if statement.
\* (AfterTaskLoop is the faulty variant that loops without suspending.)
AfterTaskLoop == "c_while"
AfterTask == "c_await"

\* ConsumeLoop: task();
ConsumeTask(s) ==
    /\ ~crashed
    /\ rt[s] = "c_task"
    /\ ~IsAdapter(out[s])
    /\ rt' = [rt EXCEPT ![s] = AfterTask]
    /\ UNCHANGED <<running, thr, cpc, ci, crashed, subRes, subStopped>>
    /\ execs' = [execs EXCEPT ![s] = execs[s] + 1]
    /\ UNCHANGED <<runtime, ret, did, tries, fvars, joins, idem>>
    /\ LateAtCallback(s)
    /\ UNCHANGED avars
    /\ UNCHANGED qvars

\* ConsumeLoop: co_await std::suspend_always{};  (control returns to the
\* scheduler's for loop)
ConsumeAwait(s) ==
    /\ ~crashed
    /\ rt[s] = "c_await"
    /\ frames' = [frames EXCEPT ![s] = SetFrame(frames[s], cur[s], "await")]
    /\ cur' = [cur EXCEPT ![s] = cur[s] + 1]
    /\ rt' = [rt EXCEPT ![s] = "s_for"]
    /\ tries' = [tries EXCEPT ![s] = 0]
    /\ execs' = [execs EXCEPT ![s] = 0]
    /\ UNCHANGED <<running, thr, cpc, ci, crashed, subRes, subStopped>>
    /\ UNCHANGED <<runtime, ret, did, nco, progressed, missCount, dequeued, idle, arg, joins, idem>>
    /\ LateReset(s)
    /\ UNCHANGED avars
    /\ UNCHANGED qvars

CoSubmit(t) == CoSubmitAdd(t) \/ CoSubmitReturn(t)

CoStart(c) == CoStartExchange(c) \/ CoStartEmplace(c) \/ CoStartSpawn(c)

CoStop(c) == CoStopExchange(c) \/ CoStopJoin(c)

SchedulerLoop(s) == SchedCheck(s) \/ SchedResume(s) \/ SchedYield(s)

ConsumeLoop(s) ==
    \/ ConsumeCheck(s)
    \/ ConsumeTryPop(s)
    \/ ConsumeAfterPop(s)
    \/ ConsumeTask(s)
    \/ ConsumeAwait(s)

CoNext ==
    \/ CoSubmit(1)
    \/ SchedulerLoop(Sched)
    \/ ConsumeLoop(Sched)
    \/ CoStart(Owner) \/ CoStop(Owner)
    \/ \E t \in Threads : ExecutorStep(t)

CoSpec == CoInit /\ [][CoNext]_vars

(***************************************************************************)
(* CoroutineExecutorMT over a RingQueue.  Thread 1 feeds the queue with    *)
(* TryPush, every thread of Workers is one entry of _threads running       *)
(* ThreadMain with nco coroutines.  Start and Stop grow and clear _threads *)
(* without synchronisation: they are called by the owning thread.          *)
(***************************************************************************)

\* DefaultBackoffPolicy::operator()(missCount)
\* (TierOff is the faulty variant whose comparisons are <= instead of <.)
TierOff(m) ==
    IF m <= SpinLimit THEN "spin" ELSE IF m <= YieldLimit THEN "yield" ELSE "sleep"
Tier(m) ==
    IF m < SpinLimit THEN "spin" ELSE IF m < YieldLimit THEN "yield" ELSE "sleep"

HybridInit ==
    /\ \E n \in Caps : QueueInit(n)
    /\ role = [t \in Threads |-> IF t = 1 THEN "prod" ELSE "cons"]
    /\ CallerInit
    /\ running = FALSE
    /\ thr = [t \in Threads |-> "none"]
    /\ cpc = [c \in Controllers |-> "idle"]
    /\ ci = [c \in Controllers |-> 0]
    /\ crashed = FALSE
    /\ subRes = FALSE
    /\ subStopped = FALSE
    /\ joins = [t \in Threads |-> 0]
    /\ idem = [c \in Controllers |-> FALSE]
    /\ late = [t \in Threads |-> "no"]
    /\ rt = [t \in Threads |-> IF t = 1 THEN "feed" ELSE "off"]
    /\ runtime = "hybrid"
    /\ nco \in 1..MaxCo
    /\ FramesInert
    /\ AdaptersInert

\* The user of the runtime pushes work into the queue it was built on.
Feed(t) ==
    /\ ~crashed
    /\ rt[t] = "feed"
    /\ tail < MaxSubmit
    /\ PushLoadTail(t)
    /\ UNCHANGED <<rvars, xvars>>

\* Start: if (_running.exchange(true)) return;
MtStartExchange(c) ==
    /\ ~crashed
    /\ runtime = "hybrid"
    /\ cpc[c] = "idle"
    /\ running' = TRUE
    /\ IF running
       THEN UNCHANGED <<cpc, ci>>
       ELSE /\ cpc' = [cpc EXCEPT ![c] = "mt_start"]
            /\ ci' = [ci EXCEPT ![c] = FirstWorker]
    /\ UNCHANGED <<rt, thr, crashed, subRes, subStopped>>
    /\ idem' = [k \in Controllers |-> FALSE]
    /\ UNCHANGED <<base, fvars, joins, late>>
    /\ UNCHANGED avars
    /\ UNCHANGED qvars

\* Start: for (i < _threadCount) _threads.emplace_back(&ThreadMain, this);
MtStartEmplace(c) ==
    /\ ~crashed
    /\ cpc[c] = "mt_start"
    /\ IF ci[c] = EndWorker
       THEN /\ cpc' = [cpc EXCEPT ![c] = "idle"]
            /\ ci' = [ci EXCEPT ![c] = 0]
            /\ UNCHANGED <<rt, thr, joins>>
       ELSE /\ thr' = [thr EXCEPT ![ci[c]] = "joinable"]
            /\ rt' = [rt EXCEPT ![ci[c]] = "m_create"]
            /\ joins' = [joins EXCEPT ![ci[c]] = 0]
            /\ ci' = [ci EXCEPT ![c] = ci[c] + 1]
            /\ UNCHANGED cpc
    /\ UNCHANGED <<running, crashed, subRes, subStopped>>
    /\ UNCHANGED <<base, fvars, idem, late>>
    /\ UNCHANGED avars
    /\ UNCHANGED qvars

\* Stop: if (!_running.exchange(false)) return;
MtStopExchange(c) ==
    /\ ~crashed
    /\ runtime = "hybrid"
    /\ cpc[c] = "idle"
    /\ running' = FALSE
    /\ IF StopProceeds(running)
       THEN cpc' = [cpc EXCEPT ![c] = "mt_notify"]
       ELSE UNCHANGED cpc
    /\ UNCHANGED <<rt, thr, ci, crashed, subRes, subStopped>>
    /\ idem' = [idem EXCEPT ![c] = Quiesced]
    /\ UNCHANGED <<base, fvars, joins>>
    /\ LateAtStop
    /\ UNCHANGED avars
    /\ UNCHANGED qvars

\* Stop: _cv.notify_all();   (no thread ever waits on _cv)
MtStopNotify(c) ==
    /\ ~crashed
    /\ cpc[c] = "mt_notify"
    /\ cpc' = [cpc EXCEPT ![c] = "mt_join"]
    /\ ci' = [ci EXCEPT ![c] = FirstWorker]
    /\ UNCHANGED <<rt, running, thr, crashed, subRes, subStopped>>
    /\ UNCHANGED <<qvars, xvars>>

\* Stop: for (auto& t : _threads) if (t.joinable()) t.join();
MtStopJoin(c) ==
    /\ ~crashed
    /\ cpc[c] = "mt_join"
    /\ IF ci[c] = EndWorker
       THEN /\ cpc' = [cpc EXCEPT ![c] = "mt_clear"]
            /\ UNCHANGED <<rt, thr, ci, joins>>
       ELSE IF thr[ci[c]] = "joinable"
            THEN /\ rt[ci[c]] = "exit"
                 /\ thr' = [thr EXCEPT ![ci[c]] = "empty"]
                 /\ rt' = [rt EXCEPT ![ci[c]] = "off"]
                 /\ joins' = [joins EXCEPT ![ci[c]] = joins[ci[c]] + 1]
                 /\ ci' = [ci EXCEPT ![c] = ci[c] + 1]
                 /\ UNCHANGED cpc
            ELSE /\ ci' = [ci EXCEPT ![c] = ci[c] + 1]
                 /\ UNCHANGED <<rt, thr, cpc, joins>>
    /\ UNCHANGED <<running, crashed, subRes, subStopped>>
    /\ UNCHANGED <<base, fvars, idem, late>>
    /\ UNCHANGED avars
    /\ UNCHANGED qvars

\* Stop: _threads.clear();   (destroying a joinable std::thread terminates)
MtStopClear(c) ==
    /\ ~crashed
    /\ cpc[c] = "mt_clear"
    /\ IF \E w \in Workers : thr[w] = "joinable"
       THEN /\ crashed' = TRUE
            /\ UNCHANGED <<thr, cpc, ci>>
       ELSE /\ thr' = [t \in Threads |-> "none"]
            /\ cpc' = [cpc EXCEPT ![c] = "idle"]
            /\ ci' = [ci EXCEPT ![c] = 0]
            /\ UNCHANGED crashed
    /\ UNCHANGED <<rt, running, subRes, subStopped>>
    /\ UNCHANGED <<qvars, xvars>>

\* ThreadMain: tasks.emplace_back(CoroutineLoop()) x _coroutinePerThread;
\* BackoffPolicy backoff; size_t missCount = 0;
MtCreate(w) ==
    /\ ~crashed
    /\ rt[w] = "m_create"
    /\ frames' = [frames EXCEPT ![w] = [i \in 1..nco |-> "init"]]
    /\ missCount' = [missCount EXCEPT ![w] = 0]
    /\ idle' = [idle EXCEPT ![w] = 0]
    /\ arg' = [arg EXCEPT ![w] = NoArg]
    /\ did' = [did EXCEPT ![w] = "none"]
    /\ rt' = [rt EXCEPT ![w] = "m_while"]
    /\ UNCHANGED <<running, thr, cpc, ci, crashed, subRes, subStopped>>
    /\ UNCHANGED <<runtime, ret, hvars, nco, cur, progressed, dequeued, joins, idem, late>>
    /\ UNCHANGED avars
    /\ UNCHANGED qvars

\* ThreadMain: while (_running.load(relaxed)) { bool progressed = false;
MtCheck(w) ==
    /\ ~crashed
    /\ rt[w] = "m_while"
    /\ IF running
       THEN /\ rt' = [rt EXCEPT ![w] = "m_for"]
            /\ progressed' = [progressed EXCEPT ![w] = FALSE]
            /\ dequeued' = [dequeued EXCEPT ![w] = FALSE]
            /\ cur' = [cur EXCEPT ![w] = 1]
       ELSE /\ rt' = [rt EXCEPT ![w] = "m_destroy"]
            /\ UNCHANGED <<progressed, dequeued, cur>>
    /\ UNCHANGED <<running, thr, cpc, ci, crashed, subRes, subStopped>>
    /\ UNCHANGED <<base, nco, frames, missCount, idle, arg, joins, idem, late>>
    /\ UNCHANGED avars
    /\ UNCHANGED qvars

\* ThreadMain: for (auto& task : tasks)
\*     if (task.handle && !task.handle.done()) { task.handle.resume(); progressed = true; }
MtResume(w) ==
    /\ ~crashed
    /\ rt[w] = "m_for"
    /\ IF cur[w] > Len(frames[w])
       THEN /\ rt' = [rt EXCEPT ![w] = "m_end"]
            /\ UNCHANGED <<cur, progressed>>
       ELSE IF frames[w][cur[w]] # "done"
            THEN /\ rt' = [rt EXCEPT ![w] = "h_while"]
                 /\ progressed' = [progressed EXCEPT ![w] = TRUE]
                 /\ UNCHANGED cur
            ELSE /\ cur' = [cur EXCEPT ![w] = cur[w] + 1]
                 /\ UNCHANGED <<rt, progressed>>
    /\ UNCHANGED <<running, thr, cpc, ci, crashed, subRes, subStopped>>
    /\ UNCHANGED <<base, nco, frames, missCount, dequeued, idle, arg, joins, idem, late>>
    /\ UNCHANGED avars
    /\ UNCHANGED qvars

\* ThreadMain: if (!progressed) { ++missCount; backoff(missCount); }
\*             else { missCount = 0; }
MtRoundEnd(w) ==
    /\ ~crashed
    /\ rt[w] = "m_end"
    /\ IF ~progressed[w]
       THEN /\ missCount' = [missCount EXCEPT ![w] = missCount[w] + 1]
            /\ arg' = [arg EXCEPT ![w] = missCount[w] + 1]
            /\ did' = [did EXCEPT ![w] = Tier(missCount[w] + 1)]
       ELSE /\ missCount' = [missCount EXCEPT ![w] = 0]
            /\ arg' = [arg EXCEPT ![w] = NoArg]
            /\ did' = [did EXCEPT ![w] = "none"]
    /\ idle' = [idle EXCEPT ![w] =
                  IF dequeued[w] THEN 0
                  ELSE IF idle[w] < MaxIdle THEN idle[w] + 1 ELSE MaxIdle]
    /\ rt' = [rt EXCEPT ![w] = "m_while"]
    /\ UNCHANGED <<running, thr, cpc, ci, crashed, subRes, subStopped>>
    /\ UNCHANGED <<runtime, ret, hvars, nco, frames, cur, progressed, dequeued, joins, idem, late>>
    /\ UNCHANGED avars
    /\ UNCHANGED qvars

\* ThreadMain: for (auto& task : tasks) if (task.handle) task.handle.destroy();
MtDestroy(w) ==
    /\ ~crashed
    /\ rt[w] = "m_destroy"
    /\ frames' = [frames EXCEPT ![w] = [i \in 1..Len(frames[w]) |-> "gone"]]
    /\ rt' = [rt EXCEPT ![w] = "exit"]
    /\ UNCHANGED <<running, thr, cpc, ci, crashed, subRes, subStopped>>
    /\ UNCHANGED <<base, nco, cur, progressed, missCount, dequeued, idle, arg, joins, idem, late>>
    /\ UNCHANGED avars
    /\ UNCHANGED qvars

\* CoroutineLoop: while (_running.load(relaxed)); co_return ends the coroutine
LoopCheck(w) ==
    /\ ~crashed
    /\ rt[w] = "h_while"
    /\ IF running
       THEN /\ rt' = [rt EXCEPT ![w] = "h_call"]
            /\ UNCHANGED <<frames, cur, hvars>>
       ELSE /\ frames' = [frames EXCEPT ![w] = SetFrame(frames[w], cur[w], "done")]
            /\ cur' = [cur EXCEPT ![w] = cur[w] + 1]
            /\ rt' = [rt EXCEPT ![w] = "m_for"]
            /\ tries' = [tries EXCEPT ![w] = 0]
            /\ execs' = [execs EXCEPT ![w] = 0]
    /\ UNCHANGED <<running, thr, cpc, ci, crashed, subRes, subStopped>>
    /\ UNCHANGED <<runtime, ret, did, nco, progressed, missCount, dequeued, idle, arg, joins, idem>>
    /\ LateReset(w)
    /\ UNCHANGED avars
    /\ UNCHANGED qvars

\* CoroutineLoop: T task; _queue.TryPop(task)
LoopTryPop(w) ==
    /\ ~crashed
    /\ rt[w] = "h_call"
    /\ PopLoadHead(w)
    /\ rt' = [rt EXCEPT ![w] = "h_popping"]
    /\ UNCHANGED <<running, thr, cpc, ci, crashed, subRes, subStopped>>
    /\ tries' = [tries EXCEPT ![w] = tries[w] + 1]
    /\ UNCHANGED <<runtime, ret, did, execs, fvars, joins, idem, late>>
    /\ UNCHANGED avars

\* CoroutineLoop: _queue.TryPop(task) == RingQueueResult::Ok
\* (LoopPopOkLax is the faulty variant that takes Busy for success.)
LoopPopOkLax(r) == r # "Empty"
LoopPopOk(r) == r = "Ok"

\* CoroutineLoop: if (TryPop(task) == Ok) ... else co_await suspend_always{};
LoopAfterPop(w) ==
    /\ ~crashed
    /\ rt[w] = "h_popping"
    /\ ~InCall(w)
    /\ IF LoopPopOk(res[w])
       THEN /\ rt' = [rt EXCEPT ![w] = "h_cb"]
            /\ dequeued' = [dequeued EXCEPT ![w] = TRUE]
            /\ UNCHANGED <<frames, cur, hvars>>
       ELSE /\ frames' = [frames EXCEPT ![w] = SetFrame(frames[w], cur[w], "await")]
            /\ cur' = [cur EXCEPT ![w] = cur[w] + 1]
            /\ rt' = [rt EXCEPT ![w] = "m_for"]
            /\ tries' = [tries EXCEPT ![w] = 0]
            /\ execs' = [execs EXCEPT ![w] = 0]
            /\ UNCHANGED dequeued
    /\ UNCHANGED <<running, thr, cpc, ci, crashed, subRes, subStopped>>
    /\ UNCHANGED <<runtime, ret, did, nco, progressed, missCount, idle, arg, joins, idem, late>>
    /\ UNCHANGED avars
    /\ UNCHANGED qvars

\* CoroutineLoop: _callback(task);
LoopCallback(w) ==
    /\ ~crashed
    /\ rt[w] = "h_cb"
    /\ rt' = [rt EXCEPT ![w] = "h_while"]
    /\ UNCHANGED <<running, thr, cpc, ci, crashed, subRes, subStopped>>
    /\ execs' = [execs EXCEPT ![w] = execs[w] + 1]
    /\ UNCHANGED <<runtime, ret, did, tries, fvars, joins, idem>>
    /\ LateAtCallback(w)
    /\ UNCHANGED avars
    /\ UNCHANGED qvars

MtStart(c) == MtStartExchange(c) \/ MtStartEmplace(c)

MtStop(c) == MtStopExchange(c) \/ MtStopNotify(c) \/ MtStopJoin(c) \/ MtStopClear(c)

ThreadMain(w) == MtCreate(w) \/ MtCheck(w) \/ MtResume(w) \/ MtRoundEnd(w) \/ MtDestroy(w)

CoroutineLoop(w) == LoopCheck(w) \/ LoopTryPop(w) \/ LoopAfterPop(w) \/ LoopCallback(w)

HybridNext ==
    \/ Feed(1)
    \/ \E w \in Workers : ThreadMain(w) \/ CoroutineLoop(w)
    \/ MtStart(Owner) \/ MtStop(Owner)
    \/ \E t \in Threads : ExecutorStep(t)

HybridSpec == HybridInit /\ [][HybridNext]_vars

\* Every worker is an OS thread: a thread that has a step to take takes it.
\* The owner and the producer are free to stay idle.
HybridFairness ==
    \A w \in Workers : WF_vars(ThreadMain(w) \/ CoroutineLoop(w) \/ ExecutorStep(w))

HybridFairSpec == HybridSpec /\ HybridFairness

(***************************************************************************)
(* DefaultBackoffPolicy on its own: a caller invokes the policy with any   *)
(* miss-count up to MaxMiss, again and again.                              *)
(***************************************************************************)
PolicyInit ==
    /\ QueueInit(1)
    /\ role = [t \in Threads |-> "none"]
    /\ CallerInit
    /\ RuntimeInert
    /\ rt = [t \in Threads |-> IF t = FirstWorker THEN "p_call" ELSE "unused"]
    /\ runtime = "policy"
    /\ nco = 0
    /\ frames = [t \in Threads |-> <<>>]
    /\ cur = [t \in Threads |-> 0]
    /\ progressed = [t \in Threads |-> FALSE]
    /\ missCount = [t \in Threads |-> 0]
    /\ dequeued = [t \in Threads |-> FALSE]
    /\ idle = [t \in Threads |-> 0]
    /\ \E m \in 0..MaxMiss :
          arg = [t \in Threads |-> IF t = FirstWorker THEN m ELSE NoArg]
    /\ did = [t \in Threads |-> "none"]
    /\ tries = [t \in Threads |-> 0]
    /\ execs = [t \in Threads |-> 0]
    /\ AdaptersInert

\* backoff(missCount)
PolicyApply(w) ==
    /\ rt[w] = "p_call"
    /\ did' = [did EXCEPT ![w] = Tier(arg[w])]
    /\ rt' = [rt EXCEPT ![w] = "p_done"]
    /\ UNCHANGED <<running, thr, cpc, ci, crashed, subRes, subStopped>>
    /\ UNCHANGED <<runtime, ret, hvars, fvars, joins, idem, late>>
    /\ UNCHANGED avars
    /\ UNCHANGED qvars

\* The caller picks the argument of its next call.
PolicyAgain(w) ==
    /\ rt[w] = "p_done"
    /\ \E m \in 0..MaxMiss : arg' = [arg EXCEPT ![w] = m]
    /\ did' = [did EXCEPT ![w] = "none"]
    /\ rt' = [rt EXCEPT ![w] = "p_call"]
    /\ UNCHANGED <<running, thr, cpc, ci, crashed, subRes, subStopped>>
    /\ UNCHANGED <<runtime, ret, hvars, nco, frames, cur, progressed, missCount,
                   dequeued, idle, joins, idem, late>>
    /\ UNCHANGED avars
    /\ UNCHANGED qvars

PolicyNext == PolicyApply(FirstWorker) \/ PolicyAgain(FirstWorker)

PolicySpec == PolicyInit /\ [][PolicyNext]_vars

(***************************************************************************)
(* ThreadExecutorBlocking / ThreadExecutorResult over a ThreadExecutor:    *)
(* Submit builds a BlockingTask / ResultTask in its own frame, hands a     *)
(* reference to the runtime and waits.  The runtime has no member Add; the *)
(* call is modelled as the runtime's only enqueueing member, Submit        *)
(* (container Add, then notify_one on success), its result discarded.      *)
(* Thread 1 makes plain and synchronous submissions, the owner of the      *)
(* runtime calls Start and Stop.                                           *)
(***************************************************************************)
Values == 1..MaxVal

SyncKinds == {"void", "result"}

Waiting(t) == rt[t] \in {"w_lock", "w_pred", "w_block", "w_relock"}

InOperator(w) == rt[w] \in {"op_lock", "op_set", "op_unlock", "op_notify"}

\* The adapter an item refers to still exists.
AdLive(x) == ad.live /\ ad.id = x

\* _cv.wait(lock, [&] { return _done; }): the predicate
\* (WaitDoneAlways is the faulty variant that does not look at the flag.)
WaitDoneAlways(d) == TRUE
WaitDone(d) == d

\* _result = std::move(r)
\* (StoredDefault is the faulty variant that leaves the initial value.)
StoredDefault(r) == NoResult
Stored(r) == r

\* Where the thread that called the synchronous Submit is between calls,
\* where the context that runs `task();` is when it makes the call and
\* where it goes on when the call has returned.
SubmitIdle == IF runtime = "co" THEN "cs_idle" ELSE "sub_idle"
AtTask(w) == rt[w] = (IF runtime = "co" THEN "c_task" ELSE "task")
TaskReturn == IF runtime = "co" THEN AfterTask ELSE "loop"

\* The runtime's bookkeeping of a returned callback (ConsumeLoop's counters).
OpReturn(w) ==
    IF runtime = "co"
    THEN /\ execs' = [execs EXCEPT ![w] = execs[w] + 1]
         /\ LateAtCallback(w)
    ELSE UNCHANGED <<execs, late>>

BlockingInit ==
    /\ \E n \in Caps : QueueInit(n)
    /\ role = [t \in Threads |-> IF t = 1 THEN "prod" ELSE "cons"]
    /\ CallerInit
    /\ RuntimeInert
    /\ rt = [t \in Threads |-> IF t = 1 THEN "sub_idle" ELSE "off"]
    /\ runtime = "block"
    /\ nco = 0
    /\ FramesInert
    /\ AdaptersInert

\* Submit: BlockingTask task(std::move(fn)); _exec.Add(std::ref(task));
BlockingAdd(t) ==
    /\ ~crashed
    /\ runtime = "block"
    /\ rt[t] = "sub_idle"
    /\ tail < MaxSubmit
    /\ Add(t)
    /\ \E k \in SyncKinds :
          \E v \in (IF k = "result" THEN Values ELSE {NoResult}) :
              ad' = [id |-> Item(t, sent[t] + 1), live |-> TRUE, sync |-> k,
                     want |-> v, done |-> FALSE, result |-> NoResult,
                     mutex |-> 0, enq |-> FALSE, ran |-> 0,
                     started |-> running /\ AnyAlive]
    /\ rt' = [rt EXCEPT ![t] = "b_add"]
    /\ UNCHANGED <<running, thr, cpc, ci, crashed, subRes, subStopped>>
    /\ UNCHANGED <<cvars, wr, dead, dangling, lastWait, mvars>>

\* _exec.Add(...) returns; its result is discarded
BlockingAfterAdd(t) ==
    /\ ~crashed
    /\ rt[t] = "b_add"
    /\ ~InCall(t)
    /\ ad' = [ad EXCEPT !.enq = AddResult(t)]
    /\ rt' = [rt EXCEPT ![t] = IF AddResult(t) THEN "b_notify" ELSE "w_lock"]
    /\ UNCHANGED <<running, thr, cpc, ci, crashed, subRes, subStopped>>
    /\ UNCHANGED <<cvars, wr, dead, dangling, lastWait, mvars>>
    /\ UNCHANGED qvars

\* ThreadExecutor::Submit: if (ok) _cv.notify_one();
BlockingNotify(t) ==
    /\ ~crashed
    /\ rt[t] = "b_notify"
    /\ NotifyOne(t, "w_lock")
    /\ UNCHANGED <<running, thr, cpc, ci, crashed, subRes, subStopped>>
    /\ UNCHANGED <<qvars, xvars>>

\* Wait / Get: std::unique_lock<std::mutex> lock(_mutex);   and the
\* re-acquisition of the mutex when the wait on _cv ends
WaitLock(t) ==
    /\ ~crashed
    /\ rt[t] \in {"w_lock", "w_relock"}
    /\ ad.mutex = 0
    /\ ad' = [ad EXCEPT !.mutex = t]
    /\ rt' = [rt EXCEPT ![t] = "w_pred"]
    /\ UNCHANGED <<running, thr, cpc, ci, crashed, subRes, subStopped>>
    /\ UNCHANGED <<cvars, wr, dead, dangling, lastWait, mvars>>
    /\ UNCHANGED qvars

\* Wait / Get: _cv.wait(lock, pred): while (!pred()) wait(lock);  when the
\* predicate holds: return _result; and the unique_lock goes out of scope:
\* the mutex is released and Wait / Get has returned.  When it does not
\* hold, wait releases the mutex and blocks in one step.
WaitPred(t) ==
    /\ ~crashed
    /\ rt[t] = "w_pred"
    /\ IF WaitDone(ad.done)
       THEN /\ lastWait' = [id |-> ad.id, sync |-> ad.sync, want |-> ad.want,
                            value |-> ad.result, ran |-> ad.ran]
            /\ ad' = [ad EXCEPT !.mutex = 0]
            /\ rt' = [rt EXCEPT ![t] = "w_ret"]
       ELSE /\ ad' = [ad EXCEPT !.mutex = 0]
            /\ rt' = [rt EXCEPT ![t] = "w_block"]
            /\ UNCHANGED lastWait
    /\ UNCHANGED <<running, thr, cpc, ci, crashed, subRes, subStopped>>
    /\ UNCHANGED <<cvars, wr, dead, dangling, mvars>>
    /\ UNCHANGED qvars

\* Submit returns: the BlockingTask / ResultTask of its frame is destroyed.
WaitReturn(t) ==
    /\ ~crashed
    /\ rt[t] = "w_ret"
    /\ ad' = [ad EXCEPT !.live = FALSE]
    /\ dead' = dead \cup {ad.id}
    /\ rt' = [rt EXCEPT ![t] = SubmitIdle]
    /\ UNCHANGED <<running, thr, cpc, ci, crashed, subRes, subStopped>>
    /\ UNCHANGED <<cvars, wr, dangling, lastWait, mvars>>
    /\ UNCHANGED qvars

\* condition_variable::wait may return without a notification
WaitSpurious(t) ==
    /\ ~crashed
    /\ rt[t] = "w_block"
    /\ rt' = [rt EXCEPT ![t] = "w_relock"]
    /\ UNCHANGED <<running, thr, cpc, ci, crashed, subRes, subStopped>>
    /\ UNCHANGED <<qvars, xvars>>

\* operator(): _fn();   (R r = _fn();)
OpFn(w) ==
    /\ ~crashed
    /\ AtTask(w)
    /\ AdLive(out[w])
    /\ wr' = [wr EXCEPT ![w] = ad.want]
    /\ ad' = [ad EXCEPT !.ran = ad.ran + 1]
    /\ rt' = [rt EXCEPT ![w] = "op_lock"]
    /\ UNCHANGED <<running, thr, cpc, ci, crashed, subRes, subStopped>>
    /\ UNCHANGED <<cvars, dead, dangling, lastWait, mvars>>
    /\ UNCHANGED qvars

\* operator(): std::lock_guard<std::mutex> lock(_mutex);
OpLock(w) ==
    /\ ~crashed
    /\ rt[w] = "op_lock"
    /\ ad.mutex = 0
    /\ AdLive(out[w])
    /\ ad' = [ad EXCEPT !.mutex = w]
    /\ rt' = [rt EXCEPT ![w] = "op_set"]
    /\ UNCHANGED <<running, thr, cpc, ci, crashed, subRes, subStopped>>
    /\ UNCHANGED <<cvars, wr, dead, dangling, lastWait, mvars>>
    /\ UNCHANGED qvars

\* operator(): _result = std::move(r); _done = true;
OpSet(w) ==
    /\ ~crashed
    /\ rt[w] = "op_set"
    /\ AdLive(out[w])
    /\ ad' = [ad EXCEPT !.done = TRUE,
                        !.result = IF ad.sync = "result" THEN Stored(wr[w])
                                   ELSE ad.result]
    /\ rt' = [rt EXCEPT ![w] = "op_unlock"]
    /\ UNCHANGED <<running, thr, cpc, ci, crashed, subRes, subStopped>>
    /\ UNCHANGED <<cvars, wr, dead, dangling, lastWait, mvars>>
    /\ UNCHANGED qvars

\* operator(): the lock_guard goes out of scope
OpUnlock(w) ==
    /\ ~crashed
    /\ rt[w] = "op_unlock"
    /\ AdLive(out[w])
    /\ ad' = [ad EXCEPT !.mutex = 0]
    /\ rt' = [rt EXCEPT ![w] = "op_notify"]
    /\ UNCHANGED <<running, thr, cpc, ci, crashed, subRes, subStopped>>
    /\ UNCHANGED <<cvars, wr, dead, dangling, lastWait, mvars>>
    /\ UNCHANGED qvars

\* _cv.notify_one(): the thread blocked in _cv.wait is woken.
\* (WokenNone is the faulty variant that signals nobody.)
WokenNone(t) == FALSE
Woken(t) == rt[t] = "w_block"

\* operator(): _cv.notify_one();   then WorkerLoop goes on
OpNotify(w) ==
    /\ ~crashed
    /\ rt[w] = "op_notify"
    /\ AdLive(out[w])
    /\ rt' = [t \in Threads |->
                IF t = w THEN TaskReturn
                ELSE IF Woken(t) THEN "w_relock" ELSE rt[t]]
    /\ OpReturn(w)
    /\ UNCHANGED <<running, thr, cpc, ci, crashed, subRes, subStopped>>
    /\ UNCHANGED <<runtime, ret, tries, did, fvars, joins, idem>>
    /\ UNCHANGED avars
    /\ UNCHANGED qvars

\* A step of operator() on an adapter that no longer exists: the access is
\* to a destroyed object in a frame that has been left, which is undefined
\* behaviour.  The outcomes a build produces: the access faults and the
\* process ends; the call returns as if the object were there and
\* WorkerLoop goes on; the call never returns (the thread stays blocked
\* inside it).
OpDangling(w) ==
    /\ ~crashed
    /\ AtTask(w) \/ InOperator(w)
    /\ IsAdapter(out[w])
    /\ ~AdLive(out[w])
    /\ dangling' = TRUE
    /\ \/ /\ crashed' = TRUE
          /\ UNCHANGED <<rt, execs, late>>
       \/ /\ rt' = [rt EXCEPT ![w] = TaskReturn]
          /\ OpReturn(w)
          /\ UNCHANGED crashed
       \/ /\ rt' = [rt EXCEPT ![w] = "op_hung"]
          /\ UNCHANGED <<crashed, execs, late>>
    /\ UNCHANGED <<running, thr, cpc, ci, subRes, subStopped>>
    /\ UNCHANGED <<runtime, ret, tries, did, fvars, joins, idem>>
    /\ UNCHANGED <<ad, wr, dead, lastWait, mvars>>
    /\ UNCHANGED qvars

BlockingSubmit(t) == BlockingAdd(t) \/ BlockingAfterAdd(t) \/ BlockingNotify(t)

\* CoroutineExecutorBlocking / CoroutineExecutorResult over a
\* CoroutineExecutor: the same Submit.  This runtime has no member Add
\* either; the call is modelled as CoroutineExecutor::Submit (the
\* container's Add and nothing else), its result discarded.
\* Submit: BlockingTask task(std::move(fn)); _exec.Add(std::ref(task));
CoBlockingAdd(t) ==
    /\ ~crashed
    /\ runtime = "co"
    /\ rt[t] = "cs_idle"
    /\ tail < MaxSubmit
    /\ Add(t)
    /\ \E k \in SyncKinds :
          \E v \in (IF k = "result" THEN Values ELSE {NoResult}) :
              ad' = [id |-> Item(t, sent[t] + 1), live |-> TRUE, sync |-> k,
                     want |-> v, done |-> FALSE, result |-> NoResult,
                     mutex |-> 0, enq |-> FALSE, ran |-> 0,
                     started |-> running /\ rt[Sched] \notin {"off", "exit"}]
    /\ rt' = [rt EXCEPT ![t] = "cb_add"]
    /\ UNCHANGED <<running, thr, cpc, ci, crashed, subRes, subStopped>>
    /\ UNCHANGED <<cvars, wr, dead, dangling, lastWait, mvars>>

\* _exec.Add(...) returns; its result is discarded; task.Wait() / task.Get()
CoBlockingAfterAdd(t) ==
    /\ ~crashed
    /\ rt[t] = "cb_add"
    /\ ~InCall(t)
    /\ ad' = [ad EXCEPT !.enq = AddResult(t)]
    /\ rt' = [rt EXCEPT ![t] = "w_lock"]
    /\ UNCHANGED <<running, thr, cpc, ci, crashed, subRes, subStopped>>
    /\ UNCHANGED <<cvars, wr, dead, dangling, lastWait, mvars>>
    /\ UNCHANGED qvars

CoBlockingSubmit(t) == CoBlockingAdd(t) \/ CoBlockingAfterAdd(t)

Wait(t) == WaitLock(t) \/ WaitPred(t) \/ WaitSpurious(t) \/ WaitReturn(t)

Operator(w) ==
    \/ OpFn(w)
    \/ OpLock(w)
    \/ OpSet(w)
    \/ OpUnlock(w)
    \/ OpNotify(w)
    \/ OpDangling(w)

BlockingNext ==
    \/ Submit(1)
    \/ BlockingSubmit(1) \/ Wait(1)
    \/ \E w \in Workers : WorkerLoop(w) \/ Operator(w)
    \/ Start(Owner) \/ Stop(Owner)
    \/ \E t \in Threads : ExecutorStep(t)

BlockingSpec == BlockingInit /\ [][BlockingNext]_vars

\* The synchronous wrappers of both runtimes side by side: one of the two
\* runtimes is constructed, the cooperative one with MaxCo coroutines (it
\* is started at most once within MaxFrames).
CoBlockingInit == CoInit /\ nco = MaxCo

SyncNext ==
    \/ BlockingNext
    \/ CoSubmit(1) \/ CoBlockingSubmit(1)
    \/ SchedulerLoop(Sched) \/ ConsumeLoop(Sched)
    \/ CoStart(Owner) \/ CoStop(Owner)

SyncSpec == (BlockingInit \/ CoBlockingInit) /\ [][SyncNext]_vars

\* The same with the threads scheduled: the worker takes a step whenever it
\* has one, and the thread that has called the synchronous Submit goes on
\* through Add, notify and Wait / Get.  A wait on the condition variable
\* ends by itself only through OpNotify: spurious wake-ups may happen but
\* are not owed.  A thread that asks for a mutex which is released again and
\* again gets it (strong fairness on the two lock steps).
BlockingFairness ==
    /\ \A w \in Workers : WF_vars(WorkerLoop(w) \/ Operator(w) \/ ExecutorStep(w))
    /\ \A w \in Workers : SF_vars(OpLock(w))
    /\ WF_vars(BlockingAfterAdd(1) \/ BlockingNotify(1) \/ ExecutorStep(1)
                 \/ WaitPred(1) \/ WaitReturn(1))
    /\ SF_vars(WaitLock(1))

\* Stop has no part in the hand-over between operator() and Wait / Get; it
\* is left out.
WakeNext ==
    \/ Submit(1)
    \/ BlockingSubmit(1) \/ Wait(1)
    \/ \E w \in Workers : WorkerLoop(w) \/ Operator(w)
    \/ Start(Owner)
    \/ \E t \in Threads : ExecutorStep(t)

BlockingFairSpec == BlockingInit /\ [][WakeNext]_vars /\ BlockingFairness

(***************************************************************************)
(* The three runtimes side by side: one of them is constructed.            *)
(***************************************************************************)
LifecycleInit == ThreadInit \/ CoInit \/ HybridInit

\* ThreadNext \/ CoNext \/ HybridNext, each step written once
LifecycleNext ==
    \/ SubmitRaced(1) \/ CoSubmit(1) \/ Feed(1)
    \/ \E w \in WorkerThreads : WorkerLoop(w)
    \/ \E c \in Controllers : Start(c) \/ Stop(c)
    \/ SchedulerLoop(Sched) \/ ConsumeLoop(Sched)
    \/ CoStart(Owner) \/ CoStop(Owner)
    \/ \E w \in Workers : ThreadMain(w) \/ CoroutineLoop(w)
    \/ MtStart(Owner) \/ MtStop(Owner)
    \/ \E t \in Threads : ExecutorStep(t)

LifecycleSpec == LifecycleInit /\ [][LifecycleNext]_vars

\* The two runtimes that have a Submit, each driven by one owning thread,
\* with the submitter also calling Submit on a full container.
BackpressureInit == ThreadInit \/ CoInit

BackpressureNext ==
    \/ SubmitCall(1, SubmitBound) \/ SubmitAfterAdd(1) \/ SubmitNotify(1)
    \/ CoSubmitCall(1, SubmitBound) \/ CoSubmitReturn(1)
    \/ \E w \in Workers : WorkerLoop(w)
    \/ SchedulerLoop(Sched)
    \/ ConsumeLoop(Sched)
    \/ Start(Owner) \/ Stop(Owner)
    \/ CoStart(Owner) \/ CoStop(Owner)
    \/ \E t \in Threads : ExecutorStep(t)

BackpressureSpec == BackpressureInit /\ [][BackpressureNext]_vars

(***************************************************************************)
(* The three runtimes, each driven by the one thread that owns it, with    *)
(* the threads scheduled: every execution context is an OS thread that     *)
(* takes a step whenever it has one, and a thread that has entered Stop    *)
(* goes on with it.  The producer and the calls of Start and Stop          *)
(* themselves are free.                                                    *)
(***************************************************************************)
OwnedNext ==
    \/ Submit(1) \/ CoSubmit(1) \/ Feed(1)
    \/ \E w \in Workers : WorkerLoop(w) \/ ThreadMain(w) \/ CoroutineLoop(w)
    \/ SchedulerLoop(Sched) \/ ConsumeLoop(Sched)
    \/ Start(Owner) \/ Stop(Owner)
    \/ CoStart(Owner) \/ CoStop(Owner)
    \/ MtStart(Owner) \/ MtStop(Owner)
    \/ \E t \in Threads : ExecutorStep(t)

ContextStep(w) ==
    \/ WorkerLoop(w) \/ ThreadMain(w) \/ CoroutineLoop(w)
    \/ SchedulerLoop(w) \/ ConsumeLoop(w)
    \/ ExecutorStep(w)

StopBody(c) ==
    \/ StopNotify(c) \/ StopJoin(c)
    \/ CoStopJoin(c)
    \/ MtStopNotify(c) \/ MtStopJoin(c) \/ MtStopClear(c)

OwnedFairness ==
    /\ \A w \in Workers : WF_vars(ContextStep(w))
    /\ WF_vars(StopBody(Owner))

OwnedFairSpec == LifecycleInit /\ [][OwnedNext]_vars /\ OwnedFairness

(***************************************************************************)
(* Derived history.                                                        *)
(***************************************************************************)
RECURSIVE SumOver(_, _)
SumOver(f, S) ==
    IF S = {} THEN 0
    ELSE LET t == CHOOSE x \in S : TRUE IN f[t] + SumOver(f, S \ {t})

TotalSent == SumOver(sent, Threads)
TotalGot == SumOver([t \in Threads |-> Len(got[t])], Threads)

\* Every value an Ok pop returned, with the thread and position it went to.
Deliveries == {<<t, k>> : t \in Threads, k \in 1..MaxTail} \cap
              {d \in Threads \X (1..MaxTail) : d[2] <= Len(got[d[1]])}

\* Items whose TryPush returned Ok.
Accepted == {Item(t, k) : t \in Threads, k \in 1..(MaxTail + MaxThreads)} \cap
            UNION {{Item(t, k) : k \in 1..sent[t]} : t \in Threads}

Quiescent == \A t \in Threads : ~InCall(t)

Finished(t, kind) == ~InCall(t) /\ op[t] = kind /\ res[t] # "None"

(***************************************************************************)
(* C1  Conservation: every value returned by an Ok pop is an item of some  *)
(* push that claimed a slot, no item is returned by two pops, and          *)
(* whenever no call is in progress the items accepted and not yet popped   *)
(* are exactly the tail - head items a retrying consumer can still pop:    *)
(* the slot at head is published for head.                                 *)
(***************************************************************************)
C1_Conservation ==
    /\ \A d \in Deliveries :
          \E t \in Threads : \E k \in 1..(sent[t] + 1) :
              /\ got[d[1]][d[2]] = Item(t, k)
              /\ k = sent[t] + 1 => item[t] = Item(t, k)
    /\ \A d, e \in Deliveries : d # e => got[d[1]][d[2]] # got[e[1]][e[2]]
    /\ Quiescent =>
          /\ TotalSent - TotalGot = tail - head
          /\ \A p \in head..(tail - 1) :
                /\ seq[Index(p, cap)] = p + 1
                /\ data[Index(p, cap)] \in Accepted
                /\ \A d \in Deliveries : got[d[1]][d[2]] # data[Index(p, cap)]

(***************************************************************************)
(* C2  Slot exclusivity: at most one thread is between its successful      *)
(* compare-exchange and its sequence store on any one slot.                *)
(***************************************************************************)
C2_SlotExclusive ==
    \A i \in 0..(cap - 1) :
        Cardinality({t \in Threads : Writing(t, i) \/ Reading(t, i)}) <= 1

(***************************************************************************)
(* C3  Capacity bound, single caller: a TryPush that follows cap           *)
(* consecutive Ok pushes returns Full, and a TryPush that follows an Ok    *)
(* pop returns Ok.                                                         *)
(***************************************************************************)
C3_CapacityBound ==
    SingleCaller =>
        \A t \in Threads :
            Finished(t, "push") =>
               /\ log.before = cap => res[t] = "Full"
               /\ log.prev = <<"pop", "Ok">> => res[t] = "Ok"

\* cap consecutive Ok pushes were followed by a push that returned Full; and
\* now, in a later lap, a full queue refused a push, one pop made room, and
\* the next push was accepted and filled the queue again.
C3_Witness ==
    /\ SingleCaller
    /\ log.refused
    /\ cap = MaxCap
    /\ head >= cap
    /\ tail - head = cap
    /\ log.prev2 = <<"push", "Full">>
    /\ log.prev = <<"pop", "Ok">>
    /\ \E t \in Threads : Finished(t, "push") /\ res[t] = "Ok"

(***************************************************************************)
(* C4  Single-producer ordering: with one producer and one consumer the    *)
(* consumer's Ok pops return the producer's items in the order pushed.     *)
(***************************************************************************)
C4_SpscOrder ==
    (Cardinality(Producers) = 1 /\ Cardinality(Consumers) = 1) =>
        \A p \in Producers : \A c \in Consumers :
            \A k \in 1..Len(got[c]) : got[c][k] = Item(p, k)

(***************************************************************************)
(* C5  Full means full: a TryPush returns Full only if tail - head = cap   *)
(* held at some instant of the call.                                       *)
(***************************************************************************)
C5_FullMeansFull ==
    \A t \in Threads :
        (Finished(t, "push") /\ res[t] = "Full") => fullSeen[t]

(***************************************************************************)
(* C6  Busy is transient: a call that ran with no other call in progress   *)
(* at any time did not return Busy.                                        *)
(***************************************************************************)
C6_BusyTransient ==
    \A t \in Threads :
        (~InCall(t) /\ res[t] # "None" /\ solo[t]) => res[t] # "Busy"

(***************************************************************************)
(* C7  Cursor invariant: 0 <= tail - head <= cap always; head and tail     *)
(* only move by +1, by the compare-exchange of a call, and a call returns  *)
(* Ok exactly when its compare-exchange succeeded.                         *)
(***************************************************************************)
CursorRange == 0 <= tail - head /\ tail - head <= cap

CursorStep ==
    /\ tail' # tail =>
          /\ tail' = tail + 1
          /\ head' = head
          /\ \E t \in Threads : pc[t] = "push_cas" /\ pc'[t] = "push_write"
    /\ head' # head =>
          /\ head' = head + 1
          /\ tail' = tail
          /\ \E t \in Threads : pc[t] = "pop_cas" /\ pc'[t] = "pop_read"
    /\ \A t \in Threads :
          (InCall(t) /\ pc'[t] = "idle") =>
              (res'[t] = "Ok" <=> pc[t] \in {"push_store", "pop_store"})

C7_CursorInvariant == [] CursorRange /\ [][CursorStep]_vars

\* A full queue in its second lap, with both cursors advanced.
C7_Witness ==
    /\ tail - head = cap
    /\ head >= cap
    /\ \E t \in Threads : Finished(t, "push") /\ res[t] = "Ok"
    /\ \E t \in Threads : Len(got[t]) > 0

(***************************************************************************)
(* C8  Empty bound: a TryPop that finds tail = 0 returns Empty, and a      *)
(* TryPop that ran with no other call in progress returned Empty exactly   *)
(* when the Ok pushes before it equalled the Ok pops before it.            *)
(***************************************************************************)
C8_EmptyBound ==
    \A t \in Threads :
        Finished(t, "pop") =>
           /\ tail = 0 => res[t] = "Empty"
           /\ solo[t] =>
                 (res[t] = "Empty" <=>
                     TotalSent = TotalGot - (IF res[t] = "Ok" THEN 1 ELSE 0))

\* An unoverlapped pop returned Empty on a queue that had been used.
C8_Witness ==
    \E t \in Threads :
        /\ Finished(t, "pop") /\ solo[t] /\ res[t] = "Empty"
        /\ TotalSent > 0
        /\ TotalSent = TotalGot

(***************************************************************************)
(* C9  A stopped runtime rejects submissions: a Submit that runs while the *)
(* runtime is stopped (never started, or every Stop has returned and no    *)
(* Start has been called since) does not enqueue its task and returns      *)
(* false.                                                                  *)
(***************************************************************************)
C9_StoppedRejects ==
    subStopped =>
        /\ rt[1] # "sub_notify"
        /\ (rt[1] = "sub_idle" /\ op[1] = "push") => (subRes = FALSE /\ sent[1] = 0)

(***************************************************************************)
(* C10  After Stop returns, nothing runs: at the moment any call of Stop   *)
(* returns, no worker thread is executing its loop or a task.  A call of   *)
(* Stop returns from the end of its join loop, or at once when its         *)
(* exchange finds _running false: StopReturning(c) holds of the states     *)
(* whose next step of controller c is, or can be, such a return.           *)
(***************************************************************************)
StopReturning(c) ==
    /\ ~crashed
    /\ \/ cpc[c] = "idle" /\ ~running
       \/ cpc[c] = "stop_join" /\ ci[c] = EndWorker

C10_StopQuiesces == \A c \in Controllers : StopReturning(c) => ~AnyAlive

(***************************************************************************)
(* C11  Stop is idempotent on the three runtimes: a Stop that begins while *)
(* the runtime is stopped (before any Start, or after a completed Stop,    *)
(* with no other call in progress) returns in its first step and joins,    *)
(* destroys and changes nothing; no thread object is joined twice and no   *)
(* coroutine frame is destroyed twice.                                     *)
(***************************************************************************)
AnyStopExchange(c) == StopExchange(c) \/ CoStopExchange(c) \/ MtStopExchange(c)

StopIsNoop ==
    \A c \in Controllers :
        (Quiesced /\ AnyStopExchange(c)) =>
            /\ cpc'[c] = "idle"
            /\ UNCHANGED <<running, rt, thr, frames, joins, crashed>>

JoinedOnce == \A w \in WorkerThreads : joins[w] <= 1

DestroyedOnce ==
    \A w \in Workers :
        rt[w] = "m_destroy" => \A i \in 1..Len(frames[w]) : frames[w][i] # "gone"

C11_StopIdempotent == [][StopIsNoop]_vars /\ [](JoinedOnce /\ DestroyedOnce)

\* A hybrid runtime was started and stopped (its thread joined, its frames
\* destroyed), and a further Stop then found it stopped.
C11_Witness ==
    /\ runtime = "hybrid"
    /\ Quiesced
    /\ \E c \in Controllers : idem[c]
    /\ joins[FirstWorker] = 1
    /\ Len(frames[FirstWorker]) > 0
    /\ \A i \in 1..Len(frames[FirstWorker]) : frames[FirstWorker][i] = "gone"

(***************************************************************************)
(* C12  A synchronous Submit never waits on a task that was not enqueued:  *)
(* the caller is in Wait / Get only if the Add of its adapter returned     *)
(* true.                                                                   *)
(***************************************************************************)
C12_NoWaitUnlessEnqueued == \A t \in Threads : Waiting(t) => ad.enq

(***************************************************************************)
(* C13  No dangling adapter access: once Wait / Get has returned, no       *)
(* worker accesses a member of the adapter.                                *)
(***************************************************************************)
C13_NoDangling == ~dangling

(***************************************************************************)
(* C14  Void adapter ordering: Wait returns only after the wrapped         *)
(* computation has run to completion, and the computation has completed as *)
(* many times as operator() was entered on the adapter.                    *)
(***************************************************************************)
Delivered(x) == Cardinality({d \in Deliveries : got[d[1]][d[2]] = x})

NotEntered(x) ==
    Cardinality({w \in Workers :
                   /\ out[w] = x
                   /\ \/ rt[w] = "task"
                      \/ rt[w] = "popping" /\ ~InCall(w) /\ res[w] = "Ok"})

C14_WaitAfterRun ==
    /\ lastWait.id # NoItem => lastWait.ran >= 1
    /\ ad.live => ad.ran = Delivered(ad.id) - NotEntered(ad.id)
    /\ ad.done => ad.ran >= 1

\* A Wait on a void adapter has returned, after one run of the computation.
C14_Witness ==
    /\ lastWait.id # NoItem
    /\ lastWait.sync = "void"
    /\ lastWait.ran = 1
    /\ rt[1] = "sub_idle"

(***************************************************************************)
(* C15  Result adapter value: Get returns the value the wrapped            *)
(* computation returned, never the initial value of _result.               *)
(***************************************************************************)
C15_GetValue ==
    lastWait.sync = "result" =>
        /\ lastWait.value = lastWait.want
        /\ lastWait.value # NoResult

\* A Get has returned the largest value, computed by a worker thread.
C15_Witness ==
    /\ lastWait.sync = "result"
    /\ lastWait.value = MaxVal
    /\ \E w \in Workers : wr[w] = MaxVal

(***************************************************************************)
(* C16  Hybrid backoff trigger: after every scheduling round of a worker   *)
(* thread, the miss-count equals the number of consecutive rounds in which *)
(* no cooperative task dequeued a task; the backoff policy was invoked in  *)
(* the last round, with the new miss-count, exactly when that number is    *)
(* not zero.                                                               *)
(***************************************************************************)
C16_BackoffTrigger ==
    \A w \in Workers :
        /\ idle[w] = 0 => (missCount[w] = 0 /\ arg[w] = NoArg)
        /\ (0 < idle[w] /\ idle[w] < MaxIdle) =>
               (missCount[w] = idle[w] /\ arg[w] = idle[w])
        /\ idle[w] = MaxIdle => (missCount[w] >= MaxIdle /\ arg[w] = missCount[w])

(***************************************************************************)
(* C17  Backoff escalation: if the runtime stays started and the container *)
(* stays empty, every worker thread eventually is and remains in the sleep *)
(* tier of the backoff policy.                                             *)
(***************************************************************************)
Idling ==
    /\ running
    /\ tail = 0
    /\ \A t \in Threads : role[t] = "prod" => ~InCall(t)
    /\ \A c \in Controllers : cpc[c] = "idle"

AllSleep == \A w \in Workers : Tier(missCount[w]) = "sleep"

C17_Escalation == <>[]Idling => <>[]AllSleep

(***************************************************************************)
(* C18  Preemptive delivery: on a runtime on which Stop is never called,   *)
(* no task is dequeued twice, and once the runtime is started with its     *)
(* workers alive every task whose Submit returned true is eventually       *)
(* executed, exactly once.                                                 *)
(***************************************************************************)
SubmitReturnedTrue(x) ==
    /\ x \in Accepted
    /\ rt[1] = "sub_idle" \/ x # Item(1, sent[1])

Runs(x) == Delivered(x) - NotEntered(x)

Started == running /\ \A w \in Workers : Alive(w)

C18_Delivery ==
    /\ [](\A k \in 1..MaxSubmit : Delivered(Item(1, k)) <= 1)
    /\ \A k \in 1..MaxSubmit :
          (SubmitReturnedTrue(Item(1, k)) /\ Started) ~> (Runs(Item(1, k)) = 1)

(***************************************************************************)
(* C19  Stop racing a synchronous Submit can hang the submitter: the       *)
(* adapter is in the container, every worker has exited without dequeuing  *)
(* it, and the submitter stays in Wait / Get for as long as the runtime is *)
(* not started again.                                                      *)
(***************************************************************************)
Queued(x) ==
    \E p \in head..(tail - 1) :
        data[Index(p, cap)] = x /\ seq[Index(p, cap)] = p + 1

Hung ==
    /\ ad.live /\ ad.enq /\ ~ad.done /\ ad.ran = 0
    /\ Waiting(1)
    /\ Queued(ad.id)
    /\ ~running
    /\ \A c \in Controllers : cpc[c] = "idle"
    /\ \A w \in Workers : rt[w] = "off"

C19_StopHangsSubmit == [][(Hung /\ ~running') => Hung']_vars

\* The Submit was made on a running runtime; a Stop has since joined the
\* worker and returned, and the adapter is still queued.
C19_Witness ==
    /\ Hung
    /\ ad.started
    /\ joins[FirstWorker] = 1

(***************************************************************************)
(* C20  The task container is a single-attempt pass-through: a queue call  *)
(* begins only as the first step of an Add or TryPop of the container, so  *)
(* each container call makes exactly one attempt; the container call       *)
(* returns as the next step of its caller after the queue call, and it     *)
(* returns true exactly when the queue call returned Ok.                   *)
(***************************************************************************)
ContainerReturned(t) == rt[t] = "c_idle" /\ op[t] # "none"

PassThroughStep ==
    \A t \in Threads :
        /\ (pc[t] = "idle" /\ pc'[t] # "idle") =>
               (rt[t] = "c_idle" /\ rt'[t] \in {"c_add", "c_pop"})
        /\ (rt[t] # "c_idle" /\ rt'[t] = "c_idle") =>
               /\ pc[t] = "idle" /\ pc'[t] = "idle"
               /\ ret'[t] = (res[t] = "Ok")
               /\ UNCHANGED <<head, tail, seq, data>>

C20_PassThrough ==
    /\ [](\A t \in Threads : ContainerReturned(t) => (ret[t] = (res[t] = "Ok")))
    /\ [][PassThroughStep]_vars

\* An Add has returned false because its push was Busy, and a TryPop has
\* returned false because its pop was Busy or Empty.
C20_Witness ==
    \E t, u \in Threads :
        /\ ContainerReturned(t) /\ op[t] = "push" /\ res[t] = "Busy" /\ ~ret[t]
        /\ ContainerReturned(u) /\ op[u] = "pop" /\ res[u] \in {"Busy", "Empty"}
        /\ ~ret[u]

(***************************************************************************)
(* C21  Full container backpressure: a Submit (preemptive or cooperative)  *)
(* that begins on a container holding cap tasks, with no other queue call  *)
(* in progress from its beginning to its end, gets Full from its push,     *)
(* returns false and notifies no worker; while it runs, the submitter      *)
(* changes neither the cursors nor any slot.                               *)
(***************************************************************************)
PreClaim(t) == pc[t] \in {"push_lhead", "push_lseq", "push_cas"}

\* The push of t has ended, ran alone, and began on a full queue.
FullAtCall(t) ==
    /\ Finished(t, "push")
    /\ solo[t]
    /\ tail - (IF res[t] = "Ok" THEN 1 ELSE 0) - head = cap

Refused(t) ==
    /\ res[t] = "Full"
    /\ rt[t] # "sub_notify"
    /\ rt[t] \in {"sub_idle", "cs_idle"} => subRes = FALSE

NothingWritten ==
    \A t \in Producers :
        (PreClaim(t) /\ solo[t] /\ tail - head = cap) =>
            UNCHANGED <<head, tail, seq, data, sent>>

C21_Backpressure ==
    /\ [](\A t \in Producers : FullAtCall(t) => Refused(t))
    /\ [][NothingWritten]_vars

\* A Submit on a preemptive runtime of capacity 2 that holds two tasks has
\* returned false while a worker was blocked in wait_for.
C21_Witness ==
    /\ runtime = "thread"
    /\ cap = 2
    /\ FullAtCall(1)
    /\ rt[1] = "sub_idle"
    /\ ~subRes
    /\ \E w \in Workers : rt[w] = "wait"

(***************************************************************************)
(* C22  Configured number of execution contexts: a runtime that was never  *)
(* started has no thread and no cooperative task; a Start on a running     *)
(* runtime creates none; and whenever a runtime is running with no Start   *)
(* or Stop in progress it hosts threadCount worker threads (preemptive,    *)
(* hybrid), one scheduler thread with exactly coroutineCount unfinished    *)
(* cooperative tasks (cooperative) and exactly coroutinePerThread          *)
(* unfinished cooperative tasks per thread (hybrid).                       *)
(***************************************************************************)
AnyStartExchange(c) == StartExchange(c) \/ CoStartExchange(c) \/ MtStartExchange(c)

LiveTasks(w) ==
    Cardinality({i \in 1..Len(frames[w]) : frames[w][i] \notin {"done", "gone"}})

Settled == running /\ ~crashed /\ \A c \in Controllers : cpc[c] = "idle"

NeverStarted == Quiesced /\ \A w \in WorkerThreads : joins[w] = 0

PreemptiveCount ==
    Settled =>
        \A w \in Workers :
            \E i \in Of(w) :
                /\ thr[i] = "joinable" /\ Alive(i)
                /\ \A j \in Of(w) \ {i} : Unused(j)

CooperativeCount ==
    /\ LiveTasks(Sched) <= nco
    /\ Settled =>
          /\ thr[Sched] = "joinable"
          /\ rt[Sched] \notin {"off", "exit"}
          /\ LiveTasks(Sched) = nco

HybridCount ==
    \A w \in Workers :
        /\ LiveTasks(w) <= nco
        /\ Settled =>
              /\ thr[w] = "joinable"
              /\ rt[w] \notin {"off", "exit"}
              /\ rt[w] # "m_create" => LiveTasks(w) = nco

StartCreatesNone ==
    \A c \in Controllers :
        (running /\ AnyStartExchange(c)) =>
            /\ cpc'[c] = "idle"
            /\ UNCHANGED <<rt, thr, frames>>

C22_ConfiguredCounts ==
    /\ [](NeverStarted =>
             \A w \in Workers : thr[w] # "joinable" /\ frames[w] = <<>>)
    /\ [](runtime = "thread" => PreemptiveCount)
    /\ [](runtime = "co" => CooperativeCount)
    /\ [](runtime = "hybrid" => HybridCount)
    /\ [][StartCreatesNone]_vars

(***************************************************************************)
(* C23  Cooperative yield discipline: a resumed cooperative task of the    *)
(* cooperative runtime makes at most one TryPop attempt and runs at most   *)
(* one task; it suspends after exactly one attempt, directly after a       *)
(* failed attempt or after the task of a successful one; it finishes only  *)
(* when it finds the running flag false, before any attempt.               *)
(***************************************************************************)
OneAttempt == runtime = "co" => (tries[Sched] <= 1 /\ execs[Sched] <= 1)

YieldStep ==
    /\ ConsumeAwait(Sched) =>
          /\ tries[Sched] = 1
          /\ execs[Sched] = (IF res[Sched] = "Ok" THEN 1 ELSE 0)
    /\ (ConsumeCheck(Sched) /\ rt'[Sched] = "s_for") =>
          (~running /\ tries[Sched] = 0 /\ execs[Sched] = 0)
    /\ (rt[Sched] = "c_task" /\ rt'[Sched] # "c_task") => rt'[Sched] = "c_await"
    /\ (rt[Sched] = "c_popping" /\ rt'[Sched] # "c_popping") =>
          rt'[Sched] \in {"c_task", "c_await"}

C23_CoYield == []OneAttempt /\ [][YieldStep]_vars

\* A cooperative task is about to suspend after running one task while
\* another task is waiting in the container.
C23_Witness ==
    /\ runtime = "co"
    /\ rt[Sched] = "c_await"
    /\ execs[Sched] = 1
    /\ tail - head >= 1
    /\ seq[Index(head, cap)] = head + 1

(***************************************************************************)
(* C24  Hybrid yield discipline: a cooperative task of the hybrid runtime  *)
(* suspends exactly when its TryPop did not return Ok; after an Ok pop it  *)
(* runs the callback and goes back to its while check without suspending,  *)
(* so within one resume every attempt but the last returned Ok and was     *)
(* executed: it suspends after its first failed attempt, or finishes when  *)
(* it finds the running flag false.                                        *)
(***************************************************************************)
Burst ==
    runtime = "hybrid" =>
        \A w \in Workers :
            /\ execs[w] <= tries[w] /\ tries[w] <= execs[w] + 1
            /\ rt[w] \in {"h_while", "h_call"} => tries[w] = execs[w]
            /\ rt[w] \in {"h_popping", "h_cb"} => tries[w] = execs[w] + 1

HybridYieldStep ==
    \A w \in Workers :
        /\ (rt[w] = "h_popping" /\ rt'[w] # "h_popping") =>
              \/ /\ res[w] = "Ok"
                 /\ rt'[w] = "h_cb"
                 /\ frames'[w] = frames[w]
              \/ /\ res[w] # "Ok"
                 /\ rt'[w] = "m_for"
                 /\ frames'[w][cur[w]] = "await"
        /\ (rt[w] = "h_cb" /\ rt'[w] # "h_cb") =>
              (rt'[w] = "h_while" /\ frames'[w] = frames[w])
        /\ (rt[w] = "h_while" /\ rt'[w] # "h_while") =>
              \/ running /\ rt'[w] = "h_call" /\ frames'[w] = frames[w]
              \/ ~running /\ rt'[w] = "m_for" /\ frames'[w][cur[w]] = "done"

C24_HybridYield == []Burst /\ [][HybridYieldStep]_vars

\* A cooperative task has run two tasks since it was resumed.
C24_Witness ==
    /\ runtime = "hybrid"
    /\ \E w \in Workers : execs[w] = 2 /\ rt[w] = "h_while"

(***************************************************************************)
(* C25  Default backoff tiers: the policy called with miss-count m spins   *)
(* for m < 50, yields for 50 <= m < 200 and sleeps for m >= 200; every m   *)
(* selects one of the three tiers and the tier does not decrease as m      *)
(* grows.                                                                  *)
(***************************************************************************)
TierRank(x) == IF x = "spin" THEN 0 ELSE IF x = "yield" THEN 1 ELSE 2

C25_BackoffTiers ==
    /\ \A w \in Workers :
          (runtime = "policy" /\ rt[w] = "p_done") =>
              /\ did[w] \in {"spin", "yield", "sleep"}
              /\ arg[w] < 50 => did[w] = "spin"
              /\ (50 <= arg[w] /\ arg[w] < 200) => did[w] = "yield"
              /\ arg[w] >= 200 => did[w] = "sleep"
    /\ \A m \in 0..(MaxMiss - 1) : TierRank(Tier(m)) <= TierRank(Tier(m + 1))

\* The policy was called at the first miss-count of the sleep tier.
C25_Witness ==
    /\ runtime = "policy"
    /\ rt[FirstWorker] = "p_done"
    /\ arg[FirstWorker] = 200
    /\ did[FirstWorker] = "sleep"

(***************************************************************************)
(* C26  Non-blocking container layer: every call of RingQueue::TryPush,    *)
(* RingQueue::TryPop, LockFreeExecutor::Add and LockFreeExecutor::TryPop   *)
(* completes within a fixed number of the caller's own steps, with at most *)
(* one CAS, no loop and no wait, however the other threads are scheduled,  *)
(* a peer stalled between its CAS and its sequence store included.         *)
(***************************************************************************)
\* The largest number of steps a call at position p still has to make.
StepsLeft(p) ==
    CASE p = "idle" -> 0
      [] p = "push_lhead" -> 5
      [] p = "push_lseq" -> 4
      [] p = "push_cas" -> 3
      [] p = "push_write" -> 2
      [] p = "push_store" -> 1
      [] p = "pop_ltail" -> 5
      [] p = "pop_lseq" -> 4
      [] p = "pop_cas" -> 3
      [] p = "pop_read" -> 2
      [] p = "pop_store" -> 1
      [] p = "pop_re1" -> 2
      [] p = "pop_re2" -> 1

InContainerCall(t) == rt[t] \in {"c_add", "c_pop"}

CallRank(t) == StepsLeft(pc[t]) + (IF InContainerCall(t) THEN 1 ELSE 0)

CasPositions == {"push_cas", "pop_cas"}

\* Whatever the other threads have done, the caller's next step can be taken.
NeverBlocked ==
    \A t \in Threads :
        /\ InCall(t) => ENABLED ExecutorStep(t)
        /\ (InContainerCall(t) /\ ~InCall(t)) =>
               ENABLED (ContainerAddReturn(t) \/ ContainerTryPopReturn(t))

\* A step of a call in progress brings its end nearer; no step of another
\* thread moves it; the CAS is reached once, from the sequence load.
BoundedStep ==
    \A t \in Threads :
        /\ CallRank(t) > 0 => CallRank(t)' <= CallRank(t)
        /\ (CallRank(t) > 0 /\ <<pc[t], rt[t]>>' # <<pc[t], rt[t]>>) =>
               CallRank(t)' < CallRank(t)
        /\ (pc'[t] \in CasPositions /\ pc'[t] # pc[t]) =>
               pc[t] \in {"push_lseq", "pop_lseq"}
        /\ (pc[t] \in CasPositions /\ pc'[t] # pc[t]) =>
               pc'[t] \in {"idle", "push_write", "pop_read"}

C26_NonBlocking ==
    /\ [](runtime = "container" => NeverBlocked)
    /\ [](\A t \in Threads : CallRank(t) <= 6)
    /\ [][BoundedStep]_vars

\* A producer is stalled between its CAS and its sequence store (the first
\* push of the run); a consumer's TryPop met the unpublished slot and has
\* returned false all the same.
C26_Witness ==
    /\ runtime = "container"
    /\ \E u \in Threads, t \in Threads :
          /\ u # t
          /\ pc[u] \in {"push_write", "push_store"}
          /\ tail = 1 /\ head = 0 /\ \A x \in Threads : sent[x] = 0
          /\ op[t] = "pop" /\ res[t] = "Busy"
          /\ rt[t] = "c_idle" /\ ~ret[t]

(***************************************************************************)
(* C27  Stop terminates: on each of the three runtimes a Stop called on a  *)
(* running runtime eventually returns, given that callbacks terminate and  *)
(* threads are scheduled fairly, also when the container is not empty.     *)
(***************************************************************************)
InStop(c) ==
    cpc[c] \in {"stop_notify", "stop_join", "co_join", "mt_notify", "mt_join", "mt_clear"}

C27_StopTerminates == InStop(Owner) ~> ~InStop(Owner)

\* Stop has joined the execution context and returned while the container
\* was full.
C27_Witness ==
    /\ Quiesced
    /\ joins[FirstWorker] = 1
    /\ tail - head = cap

(***************************************************************************)
(* C28  In-flight tasks finish: in the three runtimes a context that has   *)
(* dequeued a task invokes its callback, which runs to completion, before  *)
(* the context exits or its coroutine frame is destroyed, also when Stop   *)
(* comes between the dequeue and the invocation; no dequeued task is       *)
(* dropped.                                                                *)
(***************************************************************************)
\* The only step that ends the holding of a task is the return of its callback.
CallbackOnly ==
    \A w \in Workers :
        (Holding(w) /\ ~Holding(w)') =>
            /\ rt[w] \in {"task", "c_task", "h_cb"}
            /\ rt'[w] \in {"loop", "c_await", "h_while"}

\* A context that holds a task is a live thread, and the coroutine it runs
\* in has a live frame.
HolderAlive ==
    \A w \in Workers :
        Holding(w) =>
            /\ thr[w] \notin {"empty", "none"}
            /\ runtime \in {"co", "hybrid"} =>
                  /\ cur[w] \in 1..Len(frames[w])
                  /\ frames[w][cur[w]] \notin {"done", "gone"}

\* A task that was held when Stop cleared _running is still held until its
\* callback has run.
PendingHeld == \A w \in Workers : late[w] = "pending" => Holding(w)

C28_InFlight ==
    /\ [][CallbackOnly]_vars
    /\ [](HolderAlive /\ PendingHeld)
    /\ \A w \in Workers : Holding(w) ~> ~Holding(w)

\* Stop cleared _running between a dequeue and the invocation, the callback
\* has run all the same, and Stop has not returned yet.
C28_Witness ==
    /\ InStop(Owner)
    /\ \E w \in Workers : late[w] = "ran" /\ ~Holding(w)

(***************************************************************************)
(* C29  Adapter wake-up: once operator() has run the computation of an     *)
(* adapter, the caller of Wait / Get on that adapter eventually returns,   *)
(* whether it entered the wait before the flag was set, between the flag   *)
(* and the notify, or after the notify.                                    *)
(***************************************************************************)
Computed == ad.live /\ ad.ran > 0

C29_WakeUp == Computed ~> ~ad.live

\* The caller went to sleep on the condition variable before the flag was
\* set; the flag is set and the notify has not been sent yet.
C29_Witness ==
    /\ Computed
    /\ ad.done
    /\ rt[1] = "w_block"
    /\ \E w \in Workers : rt[w] = "op_notify"

(***************************************************************************)
(* C30  Slot sequence invariant: for every capacity C >= 1 and slot i the  *)
(* sequence of the slot is k or k + 1 for some k congruent to i modulo C;  *)
(* a slot's sequence never decreases; a producer's store sets it to its    *)
(* claimed tail + 1 and a consumer's store to its claimed head + C.        *)
(***************************************************************************)
SeqShape ==
    \A i \in 0..(cap - 1) :
        \E k \in 0..(MaxTail + cap) : k % cap = i /\ seq[i] \in {k, k + 1}

SeqStep ==
    /\ \A i \in 0..(cap - 1) : seq'[i] >= seq[i]
    /\ \A t \in Threads :
          /\ (pc[t] = "push_store" /\ pc'[t] = "idle") =>
                 seq'[Index(lt[t], cap)] = lt[t] + 1
          /\ (pc[t] = "pop_store" /\ pc'[t] = "idle") =>
                 seq'[Index(lh[t], cap)] = lh[t] + cap

C30_SlotSequence == []SeqShape /\ [][SeqStep]_vars

(***************************************************************************)
(* C31  Failure leaves the queue untouched: a TryPush that returns Full or *)
(* Busy and a TryPop that returns Empty or Busy change neither head, tail, *)
(* a slot's sequence nor a slot's payload, and a failing TryPop leaves the *)
(* caller's output argument as it was.                                     *)
(***************************************************************************)
\* Positions of a call that has not won its CAS / that has won it.
BeforeCas == {"push_lhead", "push_lseq", "push_cas",
              "pop_ltail", "pop_lseq", "pop_re1", "pop_re2", "pop_cas"}
AfterCas == {"push_write", "push_store", "pop_read", "pop_store"}

Failures == {"Full", "Busy", "Empty"}

\* A failing return is made from a position before the CAS was won; a call
\* gets to such a position only from its beginning or from another such
\* position; and no step that begins and ends before the won CAS writes
\* anything but the call's locals.
FailFrame ==
    \A t \in Threads :
        /\ (pc[t] # "idle" /\ pc'[t] = "idle" /\ res'[t] \in Failures) =>
               pc[t] \in BeforeCas
        /\ (pc'[t] \in BeforeCas /\ pc'[t] # pc[t]) =>
               pc[t] \in BeforeCas \cup {"idle"}
        /\ (pc'[t] # pc[t] /\ pc[t] \in BeforeCas \cup {"idle"} /\ pc'[t] \notin AfterCas) =>
               /\ UNCHANGED <<head, tail, seq, data>>
               /\ out'[t] = out[t]
               /\ got'[t] = got[t] /\ sent'[t] = sent[t]
        /\ (pc[t] \in AfterCas /\ pc'[t] = "idle") => res'[t] = "Ok"

C31_FailureFrame == [][FailFrame]_vars

\* A TryPush has returned Busy while the other thread's push, which took
\* the position, is still between its CAS and its sequence store.
C31_Witness ==
    \E t \in Threads, u \in Threads :
        /\ t # u
        /\ Finished(t, "push") /\ res[t] = "Busy"
        /\ pc[u] \in {"push_write", "push_store"}
        /\ tail = head + 1


(***************************************************************************)
(* C32  Empty means empty: a TryPop returns Empty only if head equalled    *)
(* tail at some instant of the call (emptySeen records the instants: the   *)
(* call's first load and every advance of head while the call is in        *)
(* progress).                                                              *)
(***************************************************************************)
C32_EmptyMeansEmpty ==
    \A t \in Threads :
        (Finished(t, "pop") /\ res[t] = "Empty") => emptySeen[t]


(***************************************************************************)
(* C33  Ticket order: the TryPop that advanced head from k to k + 1        *)
(* returns the item of the TryPush that advanced tail from k to k + 1.     *)
(* At pop_store the consumer holds position lh and the value it read from  *)
(* the slot, which is the value the call returns.                          *)
(***************************************************************************)
C33_TicketOrder ==
    \A t \in Threads :
        pc[t] = "pop_store" =>
            /\ lh[t] \in DOMAIN ticket
            /\ out[t] = ticket[lh[t]]

(***************************************************************************)
(* RingQueue::SizeApprox and AvailableApprox, called by any thread while   *)
(* the others push and pop.  size_t has WordBits = 64 bits and its         *)
(* arithmetic is modulo 2^64.  A size_t value is written as its Limbs = 4  *)
(* digits in base 2^16, least significant digit first: v[1] + v[2] * 2^16  *)
(* + v[3] * 2^32 + v[4] * 2^48, so that SIZE_MAX is <<65535, 65535, 65535, *)
(* 65535>>.                                                                *)
(***************************************************************************)
WordBits == 64
LimbBits == 16
Limb == 2^LimbBits
Limbs == WordBits \div LimbBits

\* The size_t value of a cursor or a capacity (below 2^31).
Word(n) == [i \in 1..Limbs |->
              IF i = 1 THEN n % Limb
              ELSE IF i = 2 THEN (n \div Limb) % Limb
              ELSE 0]

\* The borrow out of digit i of a - b.
RECURSIVE Borrow(_, _, _)
Borrow(a, b, i) ==
    IF i = 0 THEN 0
    ELSE IF a[i] - b[i] - Borrow(a, b, i - 1) < 0 THEN 1 ELSE 0

\* a - b on size_t: the difference modulo 2^64
Sub(a, b) == [i \in 1..Limbs |-> (a[i] - b[i] - Borrow(a, b, i - 1)) % Limb]

\* a >= b on size_t
Geq(a, b) == Borrow(a, b, Limbs) = 0

\* size_t head = _head.load(acquire)
SizeLoadHead(t) ==
    /\ rt[t] = "free"
    /\ pc[t] = "idle"
    /\ pc' = [pc EXCEPT ![t] = "size_ltail"]
    /\ lh' = [lh EXCEPT ![t] = head]
    /\ Begin(t, "size")
    /\ UNCHANGED <<rvars, xvars, cap, head, tail, seq, data, role, lt, lseq, item, out, sent, got,
                   fullSeen, emptySeen, ticket>>

\* size_t tail = _tail.load(acquire)
SizeLoadTail(t) ==
    /\ pc[t] = "size_ltail"
    /\ pc' = [pc EXCEPT ![t] = "size_ret"]
    /\ lt' = [lt EXCEPT ![t] = tail]
    /\ UNCHANGED <<rvars, xvars, cap, head, tail, seq, data, role, op, log, lh, lseq, item, res, out,
                   sent, got, solo, fullSeen, emptySeen, ticket>>

\* return tail - head;
SizeApprox(t) == Sub(Word(lt[t]), Word(lh[t]))

\* return nodes_.size() - SizeApprox();
AvailableApprox(t) == Sub(Word(cap), SizeApprox(t))

\* return (tail - head) >= nodes_.size();
IsFullApprox(t) == Geq(SizeApprox(t), Word(cap))

SizeReturn(t) ==
    /\ pc[t] = "size_ret"
    /\ Finish(t, "Ok")
    /\ UNCHANGED <<rvars, xvars, cap, head, tail, seq, data, role, op, out, sent, got, solo,
                   fullSeen, emptySeen, ticket>>

SizeNext ==
    \/ Next
    \/ \E t \in Callers : SizeLoadHead(t) \/ SizeLoadTail(t) \/ SizeReturn(t)

SizeSpec == Init /\ [][SizeNext]_vars

(***************************************************************************)
(* C34  Approximate size stays in range: the value SizeApprox returns is   *)
(* in 0..Capacity(), and so is Capacity() - SizeApprox().                  *)
(***************************************************************************)
C34_SizeInRange ==
    \A t \in Threads :
        pc[t] = "size_ret" =>
            /\ Geq(Word(cap), SizeApprox(t))
            /\ Geq(Word(cap), AvailableApprox(t))

(***************************************************************************)
(* C35  Coroutine frame teardown: in the cooperative and hybrid runtimes,  *)
(* once Stop has returned and no thread of the runtime is left, every      *)
(* frame the runtime created has been destroyed; a frame is not destroyed  *)
(* twice, and a destroyed frame is not the one being resumed.              *)
(***************************************************************************)
InCoroutine(w) ==
    rt[w] \in {"c_while", "c_call", "c_popping", "c_task", "c_await",
               "h_while", "h_call", "h_popping", "h_cb"}

FramesGone(w) == \A i \in 1..Len(frames[w]) : frames[w][i] = "gone"

C35_FrameTeardown ==
    (runtime \in {"co", "hybrid"} /\ ~crashed) =>
        /\ Quiesced => \A w \in Workers : FramesGone(w)
        /\ DestroyedOnce
        /\ \A w \in Workers : InCoroutine(w) => frames[w][cur[w]] # "gone"

(***************************************************************************)
(* C36  Cooperative round-robin: a round of the scheduler starts at the    *)
(* first task, resumes the task at the loop position only if it is not     *)
(* done, moves to the next task in creation order when the resumed task    *)
(* suspends or finishes, skips a done task without resuming it, and the    *)
(* thread yields only after the position has passed the last task.  So     *)
(* every task that is not done is resumed once per round, in creation      *)
(* order, and none twice before the others.                                *)
(***************************************************************************)
InCo(s) == rt[s] \in {"c_while", "c_call", "c_popping", "c_task", "c_await"}

RoundShape ==
    runtime = "co" =>
        /\ rt[Sched] = "s_for" => cur[Sched] \in 1..(Len(frames[Sched]) + 1)
        /\ rt[Sched] = "s_yield" => cur[Sched] = Len(frames[Sched]) + 1
        /\ InCo(Sched) =>
              /\ cur[Sched] \in 1..Len(frames[Sched])
              /\ frames[Sched][cur[Sched]] # "done"

RoundStep ==
    runtime = "co" =>
        LET s == Sched
            k == cur[s]
        IN /\ (rt[s] = "s_while" /\ rt'[s] = "s_for") => cur'[s] = 1
           /\ (rt[s] = "s_for" /\ InCo(s)') =>
                  /\ cur'[s] = k
                  /\ frames[s][k] # "done"
           /\ (rt[s] = "s_for" /\ rt'[s] = "s_for" /\ cur'[s] # k) =>
                  /\ frames[s][k] = "done"
                  /\ cur'[s] = k + 1
           /\ (InCo(s) /\ ~InCo(s)') =>
                  /\ rt'[s] = "s_for"
                  /\ cur'[s] = k + 1
                  /\ frames'[s][k] \in {"await", "done"}
           /\ (InCo(s) /\ InCo(s)') => cur'[s] = k
           /\ (rt[s] = "s_for" /\ rt'[s] = "s_yield") => k = Len(frames[s]) + 1
           /\ rt'[s] = "s_yield" => rt[s] \in {"s_for", "s_yield"}
           /\ \A i \in 1..Len(frames[s]) :
                  frames'[s][i] # frames[s][i] => (InCo(s) /\ i = k)

C36_RoundRobin == []RoundShape /\ [][RoundStep]_vars

\* The second task in creation order is resumed after the first has been
\* resumed and has suspended in the same round.
C36_Witness ==
    /\ runtime = "co"
    /\ rt[Sched] = "c_while"
    /\ cur[Sched] = 2
    /\ frames[Sched][1] = "await"
    /\ frames[Sched][2] = "await"
    /\ running

(***************************************************************************)
(* C37  Cooperative single-thread confinement: over the Start and Stop     *)
(* calls of the owning thread, Start creates the scheduler thread only     *)
(* when none exists (assigning to a joinable std::thread would terminate   *)
(* the program), cooperative tasks and task callbacks run only on the      *)
(* scheduler thread while it exists, and at most one callback runs at a    *)
(* time.                                                                   *)
(***************************************************************************)
InCallback(t) == rt[t] = "c_task"

C37_Confinement ==
    runtime = "co" =>
        /\ ~crashed
        /\ cpc[Owner] \in {"co_emplace", "co_spawn"} =>
              thr[Sched] # "joinable" /\ rt[Sched] = "off"
        /\ \A t \in Threads :
              (InCo(t) \/ rt[t] \in {"s_while", "s_for", "s_yield"}) =>
                  t = Sched /\ thr[Sched] = "joinable"
        /\ Cardinality({t \in Threads : InCallback(t)}) <= 1

\* A callback runs on the scheduler thread created by a second Start.
C37_Witness ==
    /\ runtime = "co"
    /\ InCallback(Sched)
    /\ Len(frames[Sched]) > nco
    /\ running

(***************************************************************************)
(* ThreadConsumer (Consumer/ThreadConsumer.hpp): a std::queue guarded by   *)
(* _queue_mutex, worker threads running ThreadFunc.  Every thread of       *)
(* Threads up to threadCount is a worker; the owning thread (controller    *)
(* Owner) calls Start and Stop, a second thread (controller Adder) calls   *)
(* AddTask.  The tasks pushed are numbered 1, 2, ... in the order of their *)
(* push.                                                                   *)
(***************************************************************************)
Adder == 2

\* identity of a controller as holder of the mutex
Ctl(c) == MaxThreads + c

Blocked(t) == rt[t] \in {"tc_block", "e_block"}

\* queue elements as a set
Elems(q) == {q[i] : i \in 1..Len(q)}

ConsumerInit(kind) ==
    /\ QueueInit(1)
    /\ role = [t \in Threads |-> "none"]
    /\ CallerInit
    /\ RuntimeInert
    /\ runtime = kind
    /\ nco \in 1..MaxCo
    /\ FramesInert
    /\ ret = [t \in Threads |-> FALSE]
    /\ ad = NoAdapter
    /\ wr = [t \in Threads |-> NoResult]
    /\ dead = {}
    /\ dangling = FALSE
    /\ lastWait = [id |-> NoItem, sync |-> "none", want |-> NoResult,
                   value |-> NoResult, ran |-> 0]
    /\ ConsumersInert

\* ThreadConsumer(func, threadCount): _running(false), _threads.resize(threadCount)
TcInit ==
    /\ ConsumerInit("tcons")
    /\ nthr \in 1..MaxThreads
    /\ rt = [t \in Threads |-> "tc_off"]

\* what the steps of the consumers leave alone
TcFrame == UNCHANGED <<qvars, cvars, advars, nthr, waiters, crashed, subRes, subStopped>>

\* Start: if (_running) return; _running = true;
TcStartCheck(c) ==
    /\ runtime = "tcons"
    /\ cpc[c] = "idle"
    /\ IF running
       THEN UNCHANGED <<running, cpc, ci, stopRet>>
       ELSE /\ running' = TRUE
            /\ cpc' = [cpc EXCEPT ![c] = "tc_spawn"]
            /\ ci' = [ci EXCEPT ![c] = 1]
            /\ stopRet' = "none"
    /\ UNCHANGED <<rt, thr, tq, mtx, hold, waitAll, added, ran, dropped, atStop>>
    /\ TcFrame

\* Start: for (auto& t : _threads) t = std::thread(&ThreadFunc, this);
\* (every element was joined by the Stop that cleared _running)
TcStartSpawn(c) ==
    /\ cpc[c] = "tc_spawn"
    /\ IF ci[c] > nthr
       THEN /\ cpc' = [cpc EXCEPT ![c] = "idle"]
            /\ ci' = [ci EXCEPT ![c] = 0]
            /\ UNCHANGED <<rt, thr>>
       ELSE /\ thr' = [thr EXCEPT ![ci[c]] = "joinable"]
            /\ rt' = [rt EXCEPT ![ci[c]] = "tc_lock"]
            /\ ci' = [ci EXCEPT ![c] = ci[c] + 1]
            /\ UNCHANGED cpc
    /\ UNCHANGED <<running, tq, mtx, hold, waitAll, added, ran, dropped, atStop, stopRet>>
    /\ TcFrame

\* Stop(wait_all_tasks): { std::lock_guard lock(_queue_mutex);
TcStopLock(c) ==
    /\ runtime = "tcons"
    /\ cpc[c] = "idle"
    /\ mtx = NoHolder
    /\ mtx' = Ctl(c)
    /\ \E b \in BOOLEAN : waitAll' = b
    /\ cpc' = [cpc EXCEPT ![c] = "tc_flag"]
    /\ UNCHANGED <<rt, running, thr, ci, tq, hold, added, ran, dropped, atStop, stopRet>>
    /\ TcFrame

\* Stop: _running = false; }
TcStopFlag(c) ==
    /\ cpc[c] = "tc_flag"
    /\ running' = FALSE
    /\ mtx' = NoHolder
    /\ atStop' = Elems(tq)
    /\ cpc' = [cpc EXCEPT ![c] = "tc_notify"]
    /\ UNCHANGED <<rt, thr, ci, tq, hold, waitAll, added, ran, dropped, stopRet>>
    /\ TcFrame

\* Stop: _cv.notify_all();
TcStopNotify(c) ==
    /\ cpc[c] = "tc_notify"
    /\ rt' = [t \in Threads |-> IF rt[t] = "tc_block" THEN "tc_lock" ELSE rt[t]]
    /\ cpc' = [cpc EXCEPT ![c] = IF waitAll THEN "tc_join" ELSE "tc_swap"]
    /\ ci' = [ci EXCEPT ![c] = 1]
    /\ UNCHANGED <<running, thr, tq, mtx, hold, waitAll, added, ran, dropped, atStop, stopRet>>
    /\ TcFrame

\* Stop(false): { std::lock_guard lock(_queue_mutex);
\*                std::queue<T> empty; std::swap(_task_queue, empty); }
TcStopSwap(c) ==
    /\ cpc[c] = "tc_swap"
    /\ mtx = NoHolder
    /\ dropped' = dropped \cup Elems(tq)
    /\ tq' = <<>>
    /\ cpc' = [cpc EXCEPT ![c] = "tc_join"]
    /\ UNCHANGED <<rt, running, thr, ci, mtx, hold, waitAll, added, ran, atStop, stopRet>>
    /\ TcFrame

\* Stop: for (auto& t : _threads) if (t.joinable()) t.join();
TcStopJoin(c) ==
    /\ cpc[c] = "tc_join"
    /\ IF ci[c] > nthr
       THEN /\ cpc' = [cpc EXCEPT ![c] = "idle"]
            /\ ci' = [ci EXCEPT ![c] = 0]
            /\ stopRet' = IF waitAll THEN "drain" ELSE "discard"
            /\ UNCHANGED <<rt, thr>>
       ELSE /\ IF thr[ci[c]] = "joinable"
               THEN /\ rt[ci[c]] = "tc_exit"
                    /\ thr' = [thr EXCEPT ![ci[c]] = "empty"]
                    /\ rt' = [rt EXCEPT ![ci[c]] = "tc_off"]
               ELSE UNCHANGED <<rt, thr>>
            /\ ci' = [ci EXCEPT ![c] = ci[c] + 1]
            /\ UNCHANGED <<cpc, stopRet>>
    /\ UNCHANGED <<running, tq, mtx, hold, waitAll, added, ran, dropped, atStop>>
    /\ TcFrame

\* AddTask: { std::lock_guard lock(_queue_mutex);
AddLock(c) ==
    /\ runtime \in {"tcons", "ccons"}
    /\ cpc[c] = "idle"
    /\ added < MaxTask
    /\ mtx = NoHolder
    /\ mtx' = Ctl(c)
    /\ cpc' = [cpc EXCEPT ![c] = "add_push"]
    /\ UNCHANGED <<rt, running, thr, ci, tq, hold, waitAll, added, ran, dropped, atStop, stopRet>>
    /\ TcFrame

\* AddTask: if (!_running) return; _task_queue.push(task); }
AddPush(c) ==
    /\ cpc[c] = "add_push"
    /\ mtx' = NoHolder
    /\ IF ~running
       THEN /\ cpc' = [cpc EXCEPT ![c] = "idle"]
            /\ UNCHANGED <<tq, added>>
       ELSE /\ tq' = Append(tq, added + 1)
            /\ added' = added + 1
            /\ cpc' = [cpc EXCEPT ![c] = "add_notify"]
    /\ UNCHANGED <<rt, running, thr, ci, hold, waitAll, ran, dropped, atStop, stopRet>>
    /\ TcFrame

\* AddTask: _cv.notify_one();  (wakes one thread blocked in _cv.wait, if any)
AddNotify(c) ==
    /\ cpc[c] = "add_notify"
    /\ IF \E t \in Threads : Blocked(t)
       THEN \E t \in Threads :
               /\ Blocked(t)
               /\ rt' = [rt EXCEPT ![t] = IF rt[t] = "tc_block" THEN "tc_lock" ELSE "e_relock"]
       ELSE UNCHANGED rt
    /\ cpc' = [cpc EXCEPT ![c] = "idle"]
    /\ UNCHANGED <<running, thr, ci, tq, mtx, hold, waitAll, added, ran, dropped, atStop, stopRet>>
    /\ TcFrame

\* ThreadFunc: std::unique_lock lock(_queue_mutex);  (also the re-acquisition
\* inside _cv.wait after a wake-up)
TcLock(t) ==
    /\ rt[t] = "tc_lock"
    /\ mtx = NoHolder
    /\ mtx' = t
    /\ rt' = [rt EXCEPT ![t] = "tc_pred"]
    /\ UNCHANGED <<running, thr, cpc, ci, tq, hold, waitAll, added, ran, dropped, atStop, stopRet>>
    /\ TcFrame

\* ThreadFunc: _cv.wait(lock, [&]{ return !_task_queue.empty() || !_running; });
TcPred(t) ==
    /\ rt[t] = "tc_pred"
    /\ IF tq # <<>> \/ ~running
       THEN /\ rt' = [rt EXCEPT ![t] = "tc_take"]
            /\ UNCHANGED mtx
       ELSE /\ rt' = [rt EXCEPT ![t] = "tc_block"]
            /\ mtx' = NoHolder
    /\ UNCHANGED <<running, thr, cpc, ci, tq, hold, waitAll, added, ran, dropped, atStop, stopRet>>
    /\ TcFrame

\* condition_variable::wait may return without a notification
TcSpurious(t) ==
    /\ rt[t] = "tc_block"
    /\ rt' = [rt EXCEPT ![t] = "tc_lock"]
    /\ UNCHANGED <<running, thr, cpc, ci, tq, mtx, hold, waitAll, added, ran, dropped, atStop, stopRet>>
    /\ TcFrame

\* ThreadFunc: if (!_running && _task_queue.empty()) return;
TcExitTest(run, q) == ~run /\ q = <<>>

\* ThreadFunc: if (...) return; task = std::move(_task_queue.front());
\*             _task_queue.pop(); }
TcTake(t) ==
    /\ rt[t] = "tc_take"
    /\ mtx' = NoHolder
    /\ IF TcExitTest(running, tq)
       THEN /\ rt' = [rt EXCEPT ![t] = "tc_exit"]
            /\ UNCHANGED <<tq, hold>>
       ELSE /\ hold' = [hold EXCEPT ![t] = Head(tq)]
            /\ tq' = Tail(tq)
            /\ rt' = [rt EXCEPT ![t] = "tc_cb"]
    /\ UNCHANGED <<running, thr, cpc, ci, waitAll, added, ran, dropped, atStop, stopRet>>
    /\ TcFrame

\* ThreadFunc: _callback(std::move(task));
TcCallback(t) ==
    /\ rt[t] = "tc_cb"
    /\ ran' = [ran EXCEPT ![hold[t]] = ran[hold[t]] + 1]
    /\ hold' = [hold EXCEPT ![t] = NoItem]
    /\ rt' = [rt EXCEPT ![t] = "tc_lock"]
    /\ UNCHANGED <<running, thr, cpc, ci, tq, mtx, waitAll, added, dropped, atStop, stopRet>>
    /\ TcFrame

TcStart(c) == TcStartCheck(c) \/ TcStartSpawn(c)

TcStop(c) == TcStopLock(c) \/ TcStopFlag(c) \/ TcStopNotify(c) \/ TcStopSwap(c) \/ TcStopJoin(c)

AddTask(c) == AddLock(c) \/ AddPush(c) \/ AddNotify(c)

ThreadFunc(t) == TcLock(t) \/ TcPred(t) \/ TcSpurious(t) \/ TcTake(t) \/ TcCallback(t)

TcNext ==
    \/ TcStart(Owner) \/ TcStop(Owner)
    \/ AddTask(Adder)
    \/ \E t \in Threads : ThreadFunc(t)

TcSpec == TcInit /\ [][TcNext]_vars

(***************************************************************************)
(* C38  ThreadConsumer draining stop: no task is passed to the callback    *)
(* twice; once Stop(true) has returned, every task that AddTask pushed     *)
(* (and that no earlier Stop(false) discarded) has been passed to the      *)
(* callback exactly once, the queue is empty and every worker thread has   *)
(* exited and been joined; the tasks that were queued when Stop(false)     *)
(* stopped the consumer are discarded and never executed, and once         *)
(* Stop(false) has returned no callback is in progress; while the consumer *)
(* is stopped AddTask leaves the queue empty.                              *)
(***************************************************************************)
WorkersGone == \A t \in Threads : rt[t] = "tc_off" /\ thr[t] # "joinable"

\* Stop(false) is past the statement that clears _running, or has returned.
Discarding == ~waitAll /\ (cpc[Owner] \in {"tc_notify", "tc_swap", "tc_join"} \/ stopRet = "discard")

C38_DrainingStop ==
    runtime = "tcons" =>
        /\ \A x \in 1..MaxTask : ran[x] <= 1
        /\ \A x \in dropped : ran[x] = 0
        /\ stopRet = "drain" =>
              /\ \A x \in 1..added : x \notin dropped => ran[x] = 1
              /\ tq = <<>>
              /\ WorkersGone
        /\ stopRet = "discard" =>
              /\ \A x \in 1..added : x \in dropped \/ ran[x] = 1
              /\ tq = <<>>
              /\ WorkersGone
        /\ (~running /\ cpc[Owner] = "idle") => tq = <<>>
        /\ Discarding => \A x \in atStop : ran[x] = 0 /\ \A t \in Threads : hold[t] # x

(***************************************************************************)
(* CoroutineConsumer (Consumer/CoroutineConsumer.hpp and the copy in       *)
(* Pool/): a std::queue guarded by _mutex, coroutineCount coroutines       *)
(* created suspended by Start, and the thread _worker running EventLoop.   *)
(* The thread Sched is _worker; controller Owner calls Start and Stop,     *)
(* controller Adder calls AddTask.  EventLoop resumes only the handles it  *)
(* finds in _waiters, and only a running coroutine could put one there     *)
(* (TaskAwaiter::await_suspend in Pool/, no statement in Consumer/).       *)
(***************************************************************************)
CcInit ==
    /\ ConsumerInit("ccons")
    /\ nthr = 1
    /\ rt = [t \in Threads |-> IF t = Sched THEN "e_off" ELSE "unused"]

\* Start: if (_running) return; _running = true;
CcStartCheck(c) ==
    /\ runtime = "ccons"
    /\ cpc[c] = "idle"
    /\ running \/ Len(frames[Sched]) + nco <= MaxFrames
    /\ IF running
       THEN UNCHANGED <<running, cpc, stopRet>>
       ELSE /\ running' = TRUE
            /\ cpc' = [cpc EXCEPT ![c] = "cc_emplace"]
            /\ stopRet' = "none"
    /\ UNCHANGED <<rt, thr, ci, tq, mtx, hold, waitAll, added, ran, dropped, atStop>>
    /\ TcFrame

\* Start: for (i < _coroutineCount) _coroutines.push_back(ConsumeCoroutine());
\* (each coroutine is created suspended at its initial suspend point)
\* Start: _worker = std::thread(&EventLoop, this);
CcStartSpawn(c) ==
    /\ cpc[c] = "cc_emplace"
    /\ frames' = [frames EXCEPT ![Sched] = frames[Sched] \o [i \in 1..nco |-> "init"]]
    /\ thr' = [thr EXCEPT ![Sched] = "joinable"]
    /\ rt' = [rt EXCEPT ![Sched] = "e_lock"]
    /\ cpc' = [cpc EXCEPT ![c] = "idle"]
    /\ UNCHANGED <<running, ci, tq, mtx, hold, waitAll, added, ran, dropped, atStop, stopRet>>
    /\ UNCHANGED <<qvars, base, nco, cur, progressed, missCount, dequeued, idle, arg, joins, idem, late,
                   advars, nthr, waiters, crashed, subRes, subStopped>>

\* Stop: if (!_running) return; { std::lock_guard lock(_mutex);
CcStopLock(c) ==
    /\ runtime = "ccons"
    /\ cpc[c] = "idle"
    /\ IF ~running
       THEN UNCHANGED <<cpc, mtx>>
       ELSE /\ mtx = NoHolder
            /\ mtx' = Ctl(c)
            /\ cpc' = [cpc EXCEPT ![c] = "cc_flag"]
    /\ UNCHANGED <<rt, running, thr, ci, tq, hold, waitAll, added, ran, dropped, atStop, stopRet>>
    /\ TcFrame

\* Stop: _running = false; }
CcStopFlag(c) ==
    /\ cpc[c] = "cc_flag"
    /\ running' = FALSE
    /\ mtx' = NoHolder
    /\ atStop' = Elems(tq)
    /\ cpc' = [cpc EXCEPT ![c] = "cc_notify"]
    /\ UNCHANGED <<rt, thr, ci, tq, hold, waitAll, added, ran, dropped, stopRet>>
    /\ TcFrame

\* Stop: _cv.notify_all();
CcStopNotify(c) ==
    /\ cpc[c] = "cc_notify"
    /\ rt' = [t \in Threads |-> IF rt[t] = "e_block" THEN "e_relock" ELSE rt[t]]
    /\ cpc' = [cpc EXCEPT ![c] = "cc_join"]
    /\ UNCHANGED <<running, thr, ci, tq, mtx, hold, waitAll, added, ran, dropped, atStop, stopRet>>
    /\ TcFrame

\* Stop: if (_worker.joinable()) _worker.join();
CcStopJoin(c) ==
    /\ cpc[c] = "cc_join"
    /\ IF thr[Sched] = "joinable"
       THEN /\ rt[Sched] = "e_exit"
            /\ thr' = [thr EXCEPT ![Sched] = "empty"]
            /\ rt' = [rt EXCEPT ![Sched] = "e_off"]
       ELSE UNCHANGED <<rt, thr>>
    /\ cpc' = [cpc EXCEPT ![c] = "idle"]
    /\ stopRet' = "drain"
    /\ UNCHANGED <<running, ci, tq, mtx, hold, waitAll, added, ran, dropped, atStop>>
    /\ TcFrame

\* EventLoop: while (true) { std::unique_lock lock(_mutex);
EvLock(s) ==
    /\ rt[s] = "e_lock"
    /\ mtx = NoHolder
    /\ mtx' = s
    /\ rt' = [rt EXCEPT ![s] = "e_test"]
    /\ UNCHANGED <<running, thr, cpc, ci, tq, hold, waitAll, added, ran, dropped, atStop, stopRet>>
    /\ TcFrame

\* EventLoop: if (!_running && _queue.empty() && _waiters.empty()) break;
EvTest(s) ==
    /\ rt[s] = "e_test"
    /\ IF ~running /\ tq = <<>> /\ waiters = <<>>
       THEN /\ rt' = [rt EXCEPT ![s] = "e_drain"]
            /\ mtx' = NoHolder
       ELSE /\ rt' = [rt EXCEPT ![s] = "e_pred"]
            /\ UNCHANGED mtx
    /\ UNCHANGED <<running, thr, cpc, ci, tq, hold, waitAll, added, ran, dropped, atStop, stopRet>>
    /\ TcFrame

\* EventLoop: _cv.wait(lock, [&]{ return !_queue.empty() || !_running; });
EvPred(s) ==
    /\ rt[s] = "e_pred"
    /\ IF tq # <<>> \/ ~running
       THEN /\ rt' = [rt EXCEPT ![s] = "e_pick"]
            /\ UNCHANGED mtx
       ELSE /\ rt' = [rt EXCEPT ![s] = "e_block"]
            /\ mtx' = NoHolder
    /\ UNCHANGED <<running, thr, cpc, ci, tq, hold, waitAll, added, ran, dropped, atStop, stopRet>>
    /\ TcFrame

\* condition_variable::wait may return without a notification
EvSpurious(s) ==
    /\ rt[s] = "e_block"
    /\ rt' = [rt EXCEPT ![s] = "e_relock"]
    /\ UNCHANGED <<running, thr, cpc, ci, tq, mtx, hold, waitAll, added, ran, dropped, atStop, stopRet>>
    /\ TcFrame

\* _cv.wait: the mutex is re-acquired after a wake-up, then the predicate is
\* evaluated again
EvRelock(s) ==
    /\ rt[s] = "e_relock"
    /\ mtx = NoHolder
    /\ mtx' = s
    /\ rt' = [rt EXCEPT ![s] = "e_pred"]
    /\ UNCHANGED <<running, thr, cpc, ci, tq, hold, waitAll, added, ran, dropped, atStop, stopRet>>
    /\ TcFrame

\* EventLoop: if (_waiters.empty()) continue;
\*            waiter = _waiters.front(); _waiters.pop(); }
\*            if (waiter) waiter.resume();
\* (position e_resume, the resumed coroutine, is never entered: see NoWaiter)
EvPick(s) ==
    /\ rt[s] = "e_pick"
    /\ mtx' = NoHolder
    /\ IF waiters = <<>>
       THEN /\ rt' = [rt EXCEPT ![s] = "e_lock"]
            /\ UNCHANGED <<waiters, cur>>
       ELSE /\ cur' = [cur EXCEPT ![s] = Head(waiters)]
            /\ waiters' = Tail(waiters)
            /\ rt' = [rt EXCEPT ![s] = "e_resume"]
    /\ UNCHANGED <<running, thr, cpc, ci, tq, hold, waitAll, added, ran, dropped, atStop, stopRet>>
    /\ UNCHANGED <<qvars, base, nco, frames, progressed, missCount, dequeued, idle, arg, joins, idem, late,
                   advars, nthr, crashed, subRes, subStopped>>

\* EventLoop: while (!_waiters.empty()) { ...; h.resume(); }  and the return
EvDrain(s) ==
    /\ rt[s] = "e_drain"
    /\ IF waiters = <<>>
       THEN /\ rt' = [rt EXCEPT ![s] = "e_exit"]
            /\ UNCHANGED <<waiters, cur>>
       ELSE /\ cur' = [cur EXCEPT ![s] = Head(waiters)]
            /\ waiters' = Tail(waiters)
            /\ rt' = [rt EXCEPT ![s] = "e_resume"]
    /\ UNCHANGED <<running, thr, cpc, ci, tq, mtx, hold, waitAll, added, ran, dropped, atStop, stopRet>>
    /\ UNCHANGED <<qvars, base, nco, frames, progressed, missCount, dequeued, idle, arg, joins, idem, late,
                   advars, nthr, crashed, subRes, subStopped>>

\* No handle is ever in _waiters, so EventLoop never resumes a coroutine (an
\* invariant of CcSpec).
NoWaiter == waiters = <<>> /\ \A t \in Threads : rt[t] # "e_resume"

CcStart(c) == CcStartCheck(c) \/ CcStartSpawn(c)

CcStop(c) == CcStopLock(c) \/ CcStopFlag(c) \/ CcStopNotify(c) \/ CcStopJoin(c)

EventLoop(s) ==
    \/ EvLock(s) \/ EvTest(s) \/ EvPred(s) \/ EvSpurious(s) \/ EvRelock(s)
    \/ EvPick(s) \/ EvDrain(s)

CcNext ==
    \/ CcStart(Owner) \/ CcStop(Owner)
    \/ AddTask(Adder)
    \/ EventLoop(Sched)

\* _worker is an OS thread and takes its steps; std::mutex hands the lock to
\* a thread that keeps asking for it; a Stop or AddTask that was called runs
\* to its end.  Wake-ups without a notification are not required to happen.
CcFairness ==
    /\ WF_vars(EvTest(Sched) \/ EvPred(Sched) \/ EvPick(Sched) \/ EvDrain(Sched))
    /\ SF_vars(EvLock(Sched) \/ EvRelock(Sched))
    /\ WF_vars(CcStopFlag(Owner) \/ CcStopNotify(Owner) \/ CcStopJoin(Owner))
    /\ WF_vars(CcStartSpawn(Owner))
    /\ WF_vars(AddPush(Adder) \/ AddNotify(Adder))

CcSpec == CcInit /\ [][CcNext]_vars

CcFairSpec == CcSpec /\ CcFairness

(***************************************************************************)
(* C39  CoroutineConsumer delivery: no task is passed to the callback      *)
(* twice, and every task that AddTask pushed is eventually passed to the   *)
(* callback.                                                               *)
(***************************************************************************)
C39_Delivery ==
    /\ [](\A x \in 1..MaxTask : ran[x] <= 1)
    /\ \A x \in 1..MaxTask : (runtime = "ccons" /\ added >= x) ~> (ran[x] = 1)

(***************************************************************************)
(* C40  CoroutineConsumer stop terminates: a Stop that found the consumer  *)
(* running eventually returns, with the event-loop thread exited and       *)
(* joined.                                                                 *)
(***************************************************************************)
CcInStop == runtime = "ccons" /\ cpc[Owner] \in {"cc_flag", "cc_notify", "cc_join"}

CcStopped == cpc[Owner] = "idle" /\ ~running /\ rt[Sched] = "e_off"

C40_StopTerminates == CcInStop ~> CcStopped
=============================================================================
